---- MODULE Spec2Model ----
(***************************************************************************)
(* The client-side API access layer of the webapp (lib/api.ts and          *)
(* lib/types.ts): request validation, the timeout / cancellation wiring    *)
(* of generateImages and rewritePrompt, the 401 handling, response         *)
(* parsing and validation, and the error codes each API function throws.   *)
(*                                                                         *)
(* One API call is in progress at a time.  The caller (a page) and the     *)
(* server are the environment: the caller picks the function, the request  *)
(* and the cancellation token; the server picks the status and the body.   *)
(***************************************************************************)
EXTENDS Integers, Sequences, FiniteSets, TLC

(***************************************************************************)
(* JavaScript values.  A scalar is a TLA+ string; the tokens below stand    *)
(* for the values that are not strings.                                    *)
(***************************************************************************)
UNDEF == "#undefined"
NUM == "#number"
JSTRUE == "#true"
JSFALSE == "#false"

IsString(v) == v \notin {UNDEF, NUM, JSTRUE, JSFALSE}
IsBoolean(v) == v \in {JSTRUE, JSFALSE}
Truthy(v) == v \notin {UNDEF, "", JSFALSE}

Includes(list, v) == \E i \in 1..Len(list) : list[i] = v

RECURSIVE Join(_, _)
Join(list, sep) ==
  IF Len(list) = 0 THEN ""
  ELSE IF Len(list) = 1 THEN list[1]
  ELSE list[1] \o sep \o Join(Tail(list), sep)

(***************************************************************************)
(* lib/types.ts: the permitted value sets.                                 *)
(***************************************************************************)
ASPECT_RATIOS == <<"1:1", "16:9", "9:16", "4:3">>
RESOLUTIONS == <<"512x512", "1024x1024", "1536x1536", "2048x2048">>
STYLES == <<"realistic", "artistic", "cartoon", "abstract">>
CONTENT_TYPES == <<"none", "photo", "art">>
COLOR_TONES == <<"none", "black and white", "cool tone", "golden", "monochromatic",
                 "muted color", "pastel color", "toned image">>
LIGHTING_OPTIONS == <<"none", "backlighting", "dramatic light", "long-time exposure",
                      "low lighting", "multiexposure", "studio light", "surreal lighting">>
COMPOSITION_OPTIONS == <<"none", "closeup", "knolling", "landscape photography",
                         "photographed through window", "shallow depth of field",
                         "shot from above", "shot from below", "surface details",
                         "wide angle">>
NUM_IMAGES_OPTIONS == <<1, 2, 3, 4>>
NUM_IMAGES_TEXT == <<"1", "2", "3", "4">>
MaxPromptLen == 2000

(***************************************************************************)
(* A prompt is a sequence of characters, so that trim() and length are     *)
(* computed and not assumed.                                               *)
(***************************************************************************)
Whitespace == {" ", "\t"}

RECURSIVE TrimStart(_)
TrimStart(s) ==
  IF Len(s) > 0 /\ Head(s) \in Whitespace THEN TrimStart(Tail(s)) ELSE s

RECURSIVE TrimEnd(_)
TrimEnd(s) ==
  IF Len(s) > 0 /\ s[Len(s)] \in Whitespace THEN TrimEnd(SubSeq(s, 1, Len(s) - 1)) ELSE s

Trim(s) == TrimEnd(TrimStart(s))

VErr(f, m) == [field |-> f, message |-> m]

\* the three-way prompt check shared by the request validators
ValidatePrompt(p) ==
  IF p.t # "string" \/ Len(p.s) = 0
    THEN <<VErr("prompt", "Prompt must be a string")>>
  ELSE IF Len(Trim(p.s)) = 0
    THEN <<VErr("prompt", "Prompt cannot be empty")>>
  ELSE IF Len(p.s) > MaxPromptLen
    THEN <<VErr("prompt", "Prompt must be less than 2000 characters")>>
  ELSE <<>>

\* a required enumerated field: !v || typeof v !== 'string', then includes()
ValidateRequiredEnum(f, label, v, allowed) ==
  IF ~Truthy(v) \/ ~IsString(v)
    THEN <<VErr(f, label \o " must be a string")>>
  ELSE IF ~Includes(allowed, v)
    THEN <<VErr(f, label \o " must be one of: " \o Join(allowed, ", "))>>
  ELSE <<>>

\* an optional enumerated field checked for its type only, without the
\* includes() test
ValidateOptionalEnum_TypeOnly(f, label, v, allowed) ==
  IF v = UNDEF THEN <<>>
  ELSE IF ~IsString(v)
    THEN <<VErr(f, label \o " must be a string")>>
  ELSE <<>>

\* an optional enumerated field: checked only when !== undefined
ValidateOptionalEnum(f, label, v, allowed) ==
  IF v = UNDEF THEN <<>>
  ELSE IF ~IsString(v)
    THEN <<VErr(f, label \o " must be a string")>>
  ELSE IF ~Includes(allowed, v)
    THEN <<VErr(f, label \o " must be one of: " \o Join(allowed, ", "))>>
  ELSE <<>>

ValidateNumImages(n) ==
  IF n.t = "undefined" THEN <<>>
  ELSE IF n.t # "number"
    THEN <<VErr("numImages", "Number of images must be a number")>>
  ELSE IF ~Includes(NUM_IMAGES_OPTIONS, n.n)
    THEN <<VErr("numImages",
                "Number of images must be one of: " \o Join(NUM_IMAGES_TEXT, ", "))>>
  ELSE <<>>

validateImageGenerationRequest(request) ==
  IF ~request.isObject
    THEN <<VErr("request", "Request must be an object")>>
  ELSE ValidatePrompt(request.prompt)
       \o ValidateRequiredEnum("ratio", "Aspect ratio", request.ratio, ASPECT_RATIOS)
       \o ValidateRequiredEnum("resolution", "Resolution", request.resolution, RESOLUTIONS)
       \o ValidateRequiredEnum("style", "Style", request.style, STYLES)
       \o ValidateOptionalEnum("contentType", "Content type", request.contentType,
                               CONTENT_TYPES)
       \o ValidateOptionalEnum("colorTone", "Color tone", request.colorTone, COLOR_TONES)
       \o ValidateOptionalEnum("lighting", "Lighting", request.lighting, LIGHTING_OPTIONS)
       \o ValidateOptionalEnum("composition", "Composition", request.composition,
                               COMPOSITION_OPTIONS)
       \o ValidateNumImages(request.numImages)

validatePromptRewriteRequest(request) ==
  IF ~request.isObject
    THEN <<VErr("request", "Request must be an object")>>
  ELSE ValidatePrompt(request.prompt)

(***************************************************************************)
(* lib/types.ts: the response validators.  A response body is a record:    *)
(* json (the body parses as JSON), isObject (the JSON value is an object,  *)
(* otherwise it is null) and the fields the client reads.                  *)
(***************************************************************************)
ValidateOptionalType(f, label, v, ok, typeName) ==
  IF v # UNDEF /\ ~ok THEN <<VErr(f, label \o " must be a " \o typeName)>> ELSE <<>>

RECURSIVE ValidateImageItems(_, _)
ValidateImageItems(items, index) ==
  IF Len(items) = 0 THEN <<>>
  ELSE (IF ~IsString(Head(items))
          THEN <<VErr("images[" \o ToString(index) \o "]", "Each image must be a string")>>
        ELSE IF Head(items) = ""
          THEN <<VErr("images[" \o ToString(index) \o "]", "Image string cannot be empty")>>
        ELSE <<>>)
       \o ValidateImageItems(Tail(items), index + 1)

ValidateErrorField(res) ==
  IF ~Truthy(res.error) \/ ~IsString(res.error)
    THEN <<VErr("error", "Error message must be a string")>>
  ELSE <<>>

ValidateSuccessField(res) ==
  IF ~IsBoolean(res.success)
    THEN <<VErr("success", "Success field must be a boolean")>>
  ELSE <<>>

ValidateRequiredText(f, label, v) ==
  IF ~Truthy(v) \/ ~IsString(v) THEN <<VErr(f, label \o " must be a string")>> ELSE <<>>

validateImageGenerationResponse(res) ==
  IF ~res.isObject
    THEN <<VErr("response", "Response must be an object")>>
  ELSE IF res.success = JSFALSE
    THEN ValidateSuccessField(res) \o ValidateErrorField(res)
  ELSE IF res.success = JSTRUE
    THEN ValidateSuccessField(res)
         \o (IF ~res.images.isArray
               THEN <<VErr("images", "Images must be an array")>>
             ELSE ValidateImageItems(res.images.items, 0))
         \o ValidateOptionalType("message", "Message", res.message,
                                 IsString(res.message), "string")
         \o ValidateOptionalType("requestId", "Request ID", res.requestId,
                                 IsString(res.requestId), "string")
         \o ValidateOptionalType("model_used", "Model used", res.model_used,
                                 IsString(res.model_used), "string")
         \o ValidateOptionalType("enhanced_prompt", "Enhanced prompt", res.enhanced_prompt,
                                 IsString(res.enhanced_prompt), "string")
         \o ValidateOptionalType("expires_in_hours", "Expires in hours",
                                 res.expires_in_hours, res.expires_in_hours = NUM, "number")
         \o ValidateOptionalType("brand_guidelines_applied", "Brand guidelines applied",
                                 res.brand_guidelines_applied,
                                 IsBoolean(res.brand_guidelines_applied), "boolean")
  ELSE ValidateSuccessField(res)

validatePromptRewriteResponse(res) ==
  IF ~res.isObject
    THEN <<VErr("response", "Response must be an object")>>
  ELSE IF res.success = JSFALSE
    THEN ValidateSuccessField(res) \o ValidateErrorField(res)
  ELSE IF res.success = JSTRUE
    THEN ValidateSuccessField(res)
         \o ValidateRequiredText("original_prompt", "Original prompt", res.original_prompt)
         \o ValidateRequiredText("enhanced_prompt", "Enhanced prompt", res.enhanced_prompt)
         \o ValidateRequiredText("message", "Message", res.message)
         \o ValidateOptionalType("warning", "Warning", res.warning,
                                 IsString(res.warning), "string")
  ELSE ValidateSuccessField(res)

\* isApiError: !response.success
isApiError(res) == ~Truthy(res.success)

(***************************************************************************)
(* lib/api.ts: errors.  What a call throws or returns is a record: kind is *)
(* "pending", "returned", "ApiServiceError" or the name of a foreign error *)
(* (Error, AbortError, TypeError, SyntaxError).                            *)
(***************************************************************************)
\* new ApiServiceError(message, code?, details?, validationErrors?): the
\* constructor stores its arguments; an omitted argument stays undefined
ApiServiceError(message, code, details, validationErrors) ==
  [kind |-> "ApiServiceError", code |-> code, message |-> message,
   details |-> details, validationErrors |-> validationErrors]

JsError(name, message) ==
  [kind |-> name, code |-> UNDEF, message |-> message,
   details |-> UNDEF, validationErrors |-> <<>>]

Pending == [kind |-> "pending", code |-> UNDEF, message |-> "",
            details |-> UNDEF, validationErrors |-> <<>>]

Returned == [kind |-> "returned", code |-> UNDEF, message |-> "",
             details |-> UNDEF, validationErrors |-> <<>>]

FormatErrors(errs) == Join([i \in 1..Len(errs) |-> errs[i].field \o ": " \o errs[i].message], ", ")

ValidationFailure(prefix, errs, what) ==
  ApiServiceError(prefix \o FormatErrors(errs), "VALIDATION_ERROR", what, errs)

\* handleApiError without its leading `instanceof ApiServiceError` return: a
\* service error falls through to the generic branch
handleApiError_WithoutInstanceCheck(error) ==
  IF error.kind = "AbortError"
    THEN ApiServiceError("Request was cancelled or timed out", "REQUEST_CANCELLED",
                         "{originalError}", <<>>)
  ELSE IF error.kind = "TypeError"
    THEN ApiServiceError("Network error: Unable to connect to the server", "NETWORK_ERROR",
                         "{originalError}", <<>>)
  ELSE ApiServiceError("Unexpected error: " \o error.message, "UNKNOWN_ERROR",
                       "{originalError}", <<>>)

handleApiError(error) ==
  IF error.kind = "ApiServiceError" THEN error
  ELSE IF error.kind = "AbortError"
    THEN ApiServiceError("Request was cancelled or timed out", "REQUEST_CANCELLED",
                         "{originalError}", <<>>)
  ELSE IF error.kind = "TypeError"
    THEN ApiServiceError("Network error: Unable to connect to the server", "NETWORK_ERROR",
                         "{originalError}", <<>>)
  ELSE ApiServiceError("Unexpected error: " \o error.message, "UNKNOWN_ERROR",
                       "{originalError}", <<>>)

\* the codes handleHttpError accepts from an error body
validCodes == <<"NETWORK_ERROR", "REQUEST_CANCELLED",
                "HTTP_400", "HTTP_401", "HTTP_403", "HTTP_404", "HTTP_429",
                "HTTP_500", "HTTP_502", "HTTP_503", "HTTP_504",
                "INVALID_PROMPT", "INVALID_RATIO", "INVALID_RESOLUTION", "INVALID_STYLE",
                "PARSE_ERROR", "INVALID_RESPONSE", "API_ERROR", "UNKNOWN_ERROR",
                "VALIDATION_ERROR">>

\* response.ok
Ok(status) == status >= 200 /\ status <= 299

HttpCode(status) == "HTTP_" \o ToString(status)

\* handleHttpError taking over any string code of the body, without the
\* validCodes.includes check
AcceptsBodyCode_AnyString(body) ==
  body.json /\ body.isObject /\ body.code # UNDEF /\ IsString(body.code)

AcceptsBodyCode(body) ==
  body.json /\ body.isObject /\ body.code # UNDEF /\ IsString(body.code)
  /\ Includes(validCodes, body.code)

handleHttpError(resp) ==
  LET body == resp.body
      errorMessage ==
        IF body.json /\ body.isObject /\ body.error # UNDEF /\ IsString(body.error)
          THEN body.error
        ELSE "HTTP " \o ToString(resp.status) \o ": " \o resp.statusText
      errorCode == IF AcceptsBodyCode(body) THEN body.code ELSE HttpCode(resp.status)
      errorDetails == IF ~body.json THEN "{parseError}"
                      ELSE IF body.isObject THEN "errorData" ELSE UNDEF
  IN ApiServiceError(errorMessage, errorCode, errorDetails, <<>>)

\* parseResponse: the error thrown when response.json() rejects
ParseFailure ==
  ApiServiceError("Failed to parse response as JSON", "PARSE_ERROR", "{originalError}", <<>>)

\* data.error || fallback, data.code || fallback
OrElse(v, fallback) == IF Truthy(v) THEN v ELSE fallback

\* the response check without its isApiError branch
CheckResponse_OmitsFailureBranch(prefix, errs, body) ==
  IF Len(errs) > 0
    THEN ApiServiceError(prefix \o FormatErrors(errs), "INVALID_RESPONSE", "{response}", errs)
  ELSE Returned

\* validateResponse / validateRewriteResponse: Returned when nothing is thrown
CheckResponse(prefix, errs, body) ==
  IF Len(errs) > 0
    THEN ApiServiceError(prefix \o FormatErrors(errs), "INVALID_RESPONSE", "{response}", errs)
  ELSE IF isApiError(body)
    THEN ApiServiceError(OrElse(body.error, "Unknown API error"),
                         OrElse(body.code, "API_ERROR"), "body.details", <<>>)
  ELSE Returned

validateResponse(body) ==
  CheckResponse("Response validation failed: ", validateImageGenerationResponse(body), body)

validateRewriteResponse(body) ==
  CheckResponse("Rewrite response validation failed: ", validatePromptRewriteResponse(body),
                body)

(***************************************************************************)
(* The API functions, grouped by the shape of their code.                  *)
(***************************************************************************)
WrappedFns == {"generateImages", "rewritePrompt"}

\* authenticatedFetch inside try / catch that rethrows service errors and
\* turns anything else into NETWORK_ERROR
SimpleFns == {"getBrandGuidelines", "updateBrandGuidelines", "getHistory",
              "getHistoryStats", "getHistoryItem", "deleteHistoryItem",
              "generateVideo", "enhancePrompt", "generatePrompt",
              "generateSignedUrl", "listBuckets"}

\* the video workflow functions that go through fetchApi
FetchApiFns == {"generateStoryboardPrompts", "videoApi.enhancePrompt", "generateFinalVideo"}

\* the functions whose fetch goes through authenticatedFetch
AuthFetchFns == WrappedFns \cup SimpleFns \cup {"downloadImage"}

\* the functions that take the caller's AbortSignal
SignalFns == AuthFetchFns \cup {"editImage"}

\* errorData.code || '<default>' of each function's !response.ok branch
DefaultCode(f) ==
  CASE f \in {"getBrandGuidelines", "getHistory", "getHistoryStats", "getHistoryItem",
              "listBuckets"} -> "FETCH_ERROR"
    [] f = "updateBrandGuidelines" -> "UPDATE_ERROR"
    [] f = "deleteHistoryItem" -> "DELETE_ERROR"
    [] f \in {"generateVideo", "generatePrompt"} -> "GENERATION_ERROR"
    [] f = "enhancePrompt" -> "ENHANCEMENT_ERROR"
    [] f = "generateSignedUrl" -> "UPLOAD_ERROR"
    [] f = "downloadImage" -> "DOWNLOAD_ERROR"
    [] f = "editImage" -> "EDIT_ERROR"

\* errorData.error || `<text>: ${response.status}`
FailureText(f) ==
  CASE f = "getBrandGuidelines" -> "Failed to fetch brand guidelines: "
    [] f = "updateBrandGuidelines" -> "Failed to update brand guidelines: "
    [] f = "getHistory" -> "Failed to fetch history: "
    [] f = "getHistoryStats" -> "Failed to fetch history stats: "
    [] f = "getHistoryItem" -> "Failed to fetch history item: "
    [] f = "deleteHistoryItem" -> "Failed to delete history item: "
    [] f = "generateVideo" -> "Video generation failed: "
    [] f = "enhancePrompt" -> "Prompt enhancement failed: "
    [] f = "generatePrompt" -> "Prompt generation failed: "
    [] f = "generateSignedUrl" -> "Failed to generate signed URL: "
    [] f = "listBuckets" -> "Failed to list buckets: "
    [] f = "downloadImage" -> "Download failed: "
    [] f = "editImage" -> "Edit failed: "

\* the message of the NETWORK_ERROR a simple function's catch block throws
NetworkText(f) ==
  CASE f = "getBrandGuidelines" -> "Failed to fetch brand guidelines"
    [] f = "updateBrandGuidelines" -> "Failed to update brand guidelines"
    [] f = "getHistory" -> "Failed to fetch history"
    [] f = "getHistoryStats" -> "Failed to fetch history statistics"
    [] f = "getHistoryItem" -> "Failed to fetch history item"
    [] f = "deleteHistoryItem" -> "Failed to delete history item"
    [] f = "generateVideo" -> "Failed to generate video"
    [] f = "enhancePrompt" -> "Failed to enhance prompt"
    [] f = "generatePrompt" -> "Failed to generate prompt"
    [] f = "generateSignedUrl" -> "Failed to generate signed URL"
    [] f = "listBuckets" -> "Failed to list buckets"

\* reading a property of null
NullAccess == JsError("TypeError", "Cannot read properties of null")

\* response.json() on a body that is not JSON
JsonSyntaxError == JsError("SyntaxError", "Unexpected token in JSON")

\* fetch rejecting because its signal aborted / because the network failed
FetchAborted == JsError("AbortError", "The operation was aborted")
FetchFailed == JsError("TypeError", "Failed to fetch")

\* the 401 branch of authenticatedFetch and of editImage
AuthRequired == ApiServiceError("Authentication required", "HTTP_401", UNDEF, <<>>)

\* `await response.json().catch(() => ({}))` followed by
\* `throw new ApiServiceError(errorData.error || ..., errorData.code || ...)`
NotOkError(f, resp) ==
  LET body == resp.body IN
  IF ~body.json
    THEN ApiServiceError(FailureText(f) \o ToString(resp.status), DefaultCode(f), UNDEF, <<>>)
  ELSE IF ~body.isObject
    THEN NullAccess
  ELSE ApiServiceError(OrElse(body.error, FailureText(f) \o ToString(resp.status)),
                       OrElse(body.code, DefaultCode(f)), UNDEF, <<>>)

\* what the body of the function does with a response whose status is not
\* one it handles as 401: the value it throws, or Returned
AfterFetch(f, resp) ==
  LET body == resp.body IN
  CASE f = "generateImages" ->
         IF ~Ok(resp.status) THEN handleHttpError(resp)
         ELSE IF ~body.json THEN ParseFailure
         ELSE validateResponse(body)
    [] f = "rewritePrompt" ->
         IF ~Ok(resp.status) THEN handleHttpError(resp)
         ELSE IF ~body.json THEN ParseFailure
         ELSE validateRewriteResponse(body)
    [] f \in SimpleFns ->
         IF ~Ok(resp.status) THEN NotOkError(f, resp)
         ELSE IF ~body.json THEN JsonSyntaxError
         ELSE Returned
    [] f = "downloadImage" ->
         IF ~Ok(resp.status) THEN NotOkError(f, resp) ELSE Returned
    [] f = "editImage" ->
         IF ~Ok(resp.status) THEN NotOkError(f, resp)
         ELSE IF ~body.json THEN JsonSyntaxError
         ELSE IF ~body.isObject THEN NullAccess
         ELSE IF ~Truthy(body.success)
           THEN ApiServiceError(OrElse(body.error, "Edit failed"),
                                OrElse(body.code, "EDIT_ERROR"), UNDEF, <<>>)
         ELSE Returned
    [] f \in FetchApiFns ->
         IF ~body.json THEN JsonSyntaxError
         ELSE IF Ok(resp.status) THEN Returned
         ELSE IF ~body.isObject THEN NullAccess
         ELSE ApiServiceError(OrElse(body.message, "An API error occurred."), body.code,
                              "body.data", <<>>)
    [] f = "uploadFileViaProxy" ->
         IF ~body.json THEN JsonSyntaxError
         ELSE IF ~body.isObject THEN NullAccess
         ELSE IF Ok(resp.status) THEN Returned
         ELSE ApiServiceError(OrElse(body.message, "Proxy upload failed."), UNDEF, UNDEF, <<>>)

\* the catch block of each function, applied to what its body threw
CatchBlock(f, thrown) ==
  IF thrown.kind = "returned" THEN thrown
  ELSE CASE f \in WrappedFns -> handleApiError(thrown)
         [] f \in SimpleFns ->
              IF thrown.kind = "ApiServiceError" THEN thrown
              ELSE ApiServiceError(NetworkText(f), "NETWORK_ERROR", "{originalError}", <<>>)
         [] f \in {"downloadImage", "editImage"} -> thrown
         [] f \in FetchApiFns ->
              IF thrown.kind = "ApiServiceError" THEN thrown
              ELSE IF thrown.kind = "AbortError"
                THEN ApiServiceError("Request timed out.", "HTTP_500", UNDEF, <<>>)
              ELSE ApiServiceError("A network or parsing error occurred.", "NETWORK_ERROR",
                                   "error", <<>>)
         [] f = "uploadFileViaProxy" ->
              IF thrown.kind = "ApiServiceError" THEN thrown
              ELSE ApiServiceError("File upload failed due to a network error.",
                                   "NETWORK_ERROR", "error", <<>>)

(***************************************************************************)
(* The environment: the requests a caller passes and the responses a       *)
(* server gives.                                                           *)
(***************************************************************************)
\* how many characters past MaxPromptLen the longest prompt goes
MaxExtra == 1
\* the longest images array of a response body
MaxImages == 2

PUndef == [t |-> "undefined", s |-> <<>>]
PNumber == [t |-> "number", s |-> <<>>]
PString(chars) == [t |-> "string", s |-> chars]
Chars(n) == [i \in 1..n |-> "a"]

Prompts ==
  {PUndef, PNumber, PString(<<>>), PString(<<" ">>), PString(<<" ", "\t">>),
   PString(<<"a">>), PString(<<" ", "a", " ">>)}
  \cup {PString(Chars(MaxPromptLen + k)) : k \in 0..MaxExtra}

NUndef == [t |-> "undefined", n |-> 0]
NumImagesValues == {NUndef, [t |-> "string", n |-> 0], [t |-> "number", n |-> 4],
                    [t |-> "number", n |-> 5]}

BaseRequest ==
  [isObject |-> TRUE, prompt |-> PString(<<"a">>), ratio |-> "1:1",
   resolution |-> "1024x1024", style |-> "realistic", contentType |-> UNDEF,
   colorTone |-> UNDEF, lighting |-> UNDEF, composition |-> UNDEF, numImages |-> NUndef]

ImageRequests ==
  {[BaseRequest EXCEPT !.isObject = FALSE]}
  \cup {[BaseRequest EXCEPT !.prompt = p, !.ratio = r] :
          p \in Prompts, r \in {"1:1", "21:9", UNDEF}}
  \cup {[BaseRequest EXCEPT !.ratio = r, !.resolution = z, !.style = y] :
          r \in {"4:3", "", NUM}, z \in {"512x512", "4096x4096", UNDEF},
          y \in {"cartoon", "Realistic", UNDEF}}
  \cup {[BaseRequest EXCEPT !.contentType = c, !.colorTone = t, !.numImages = n] :
          c \in {UNDEF, "photo", "video"}, t \in {UNDEF, "golden", NUM},
          n \in NumImagesValues}
  \cup {[BaseRequest EXCEPT !.lighting = l, !.composition = c] :
          l \in {"none", "studio light", "neon"}, c \in {"closeup", "", NUM}}

RewriteRequests ==
  {[isObject |-> FALSE, prompt |-> PUndef]}
  \cup {[isObject |-> TRUE, prompt |-> p] : p \in Prompts}

\* the request slot of a function that takes no validated request
NoRequest == [isObject |-> TRUE, prompt |-> PUndef]

NoImages == [isArray |-> FALSE, items |-> <<>>]
ImageItems == {"", "https://img/1.png", NUM}
ImagesValues ==
  {NoImages}
  \cup {[isArray |-> TRUE, items |-> it] :
          it \in UNION {[1..n -> ImageItems] : n \in 0..MaxImages}}

\* the JSON object {}
EmptyBody ==
  [json |-> TRUE, isObject |-> TRUE, success |-> UNDEF, error |-> UNDEF, code |-> UNDEF,
   message |-> UNDEF, images |-> NoImages, original_prompt |-> UNDEF,
   enhanced_prompt |-> UNDEF, warning |-> UNDEF, requestId |-> UNDEF, model_used |-> UNDEF,
   expires_in_hours |-> UNDEF, brand_guidelines_applied |-> UNDEF]

NotJsonBody == [EmptyBody EXCEPT !.json = FALSE, !.isObject = FALSE]
NullBody == [EmptyBody EXCEPT !.isObject = FALSE]

ErrorBodies ==
  {[EmptyBody EXCEPT !.success = JSFALSE, !.error = e, !.code = c, !.message = m] :
     e \in {UNDEF, "", "quota exceeded"},
     c \in {UNDEF, "", "API_ERROR", "INVALID_PROMPT", "QUOTA_EXCEEDED", NUM},
     m \in {UNDEF, "denied"}}
  \cup {[EmptyBody EXCEPT !.error = "quota exceeded", !.code = c] :
          c \in {UNDEF, "HTTP_429", "QUOTA_EXCEEDED"}}
  \cup {[EmptyBody EXCEPT !.success = "yes"]}

ImageBodies ==
  {[EmptyBody EXCEPT !.success = JSTRUE, !.images = im, !.message = m] :
     im \in ImagesValues, m \in {UNDEF, NUM}}
  \cup {[EmptyBody EXCEPT !.success = JSTRUE,
                          !.images = [isArray |-> TRUE, items |-> <<"https://img/1.png">>],
                          !.requestId = q, !.expires_in_hours = h,
                          !.brand_guidelines_applied = g] :
          q \in {"r-1", NUM}, h \in {NUM, "24"}, g \in {JSTRUE, "yes"}}

RewriteBodies ==
  {[EmptyBody EXCEPT !.success = JSTRUE, !.original_prompt = o, !.enhanced_prompt = e,
                     !.message = m, !.warning = w] :
     o \in {UNDEF, "a cat"}, e \in {"", "a fluffy cat"}, m \in {NUM, "ok"},
     w \in {UNDEF, NUM}}

Bodies == {NotJsonBody, NullBody} \cup ErrorBodies \cup ImageBodies \cup RewriteBodies

Statuses == {200, 401, 404, 418, 500}

StatusText(status) ==
  CASE status = 200 -> "OK"
    [] status = 401 -> "Unauthorized"
    [] status = 404 -> "Not Found"
    [] status = 418 -> "I'm a teapot"
    [] status = 500 -> "Internal Server Error"

Response(status, body) == [status |-> status, statusText |-> StatusText(status), body |-> body]

NoResponse == [status |-> 0, statusText |-> "", body |-> EmptyBody]

\* the value Cookies.set stores at login
AuthToken == "jwt"

(***************************************************************************)
(* The state of the client while one API call runs.                        *)
(*   cookie           the auth_token cookie (UNDEF: none stored)           *)
(*   nav              assignments to window.location.href by this call     *)
(*   pc               "idle", "inflight" (suspended at await fetch), "done"*)
(*   fn, req, sig     the function called, its request, and the caller's   *)
(*                    AbortSignal: "none", "live" or "aborted"             *)
(*   hasListener      abortHandler is attached to the caller's signal      *)
(*   timer            the setTimeout of the call: "unset", "armed",        *)
(*                    "fired" or "cleared"                                 *)
(*   ctlAborted       the call's own AbortController has aborted           *)
(*   fetchCount       network requests issued by this call                 *)
(*   effectiveSignal  the signal given to fetch: "caller", "controller",   *)
(*                    "none"                                               *)
(*   authHeader       the Authorization header of the request              *)
(*   netAborts        times the in-flight fetch was aborted                *)
(*   resp             the response the server gave                         *)
(*   outcome          what the call returned or threw                      *)
(***************************************************************************)
VARIABLES cookie, nav, pc, fn, req, sig, hasListener, timer, ctlAborted, fetchCount,
          effectiveSignal, authHeader, netAborts, resp, outcome

apiVars == <<cookie, nav, pc, fn, req, sig, hasListener, timer, ctlAborted, fetchCount,
             effectiveSignal, authHeader, netAborts, resp, outcome>>

(***************************************************************************)
(* The state of the image generation page (ImageGenerationPage): its React *)
(* state and the requests it has started.                                  *)
(*   mounted            the component is mounted                           *)
(*   prompt             the textarea's text, a sequence of characters      *)
(*   isGenerating, isRewriting, generatedImages                            *)
(*   pageError          the `error` state: UNDEF (null) or the message     *)
(*   abortController, rewriteController                                    *)
(*                      the slot's controller: 0 (null) or the number of   *)
(*                      the request it was created for                     *)
(*   calls              the requests started so far, each with its         *)
(*                      controller's aborted flag and its promise          *)
(*   lastEvent          the handler that ran last and how it ended         *)
(***************************************************************************)
VARIABLES mounted, prompt, isGenerating, isRewriting, generatedImages, pageError,
          abortController, rewriteController, calls, lastEvent

pageVars == <<mounted, prompt, isGenerating, isRewriting, generatedImages, pageError,
              abortController, rewriteController, calls, lastEvent>>

(***************************************************************************)
(* combineAbortSignals (lib/api.ts): the arguments of the call (0 is       *)
(* undefined, another number is an AbortSignal object), the aborted flag   *)
(* of every signal object, whether abortHandler is attached to it, and the *)
(* controller the function creates.                                        *)
(***************************************************************************)
VARIABLES combineArgs, inputAborted, handlerOn, combined

combineVars == <<combineArgs, inputAborted, handlerOn, combined>>

(***************************************************************************)
(* The useApi hook (hooks/useApi): the user of the auth context, the       *)
(* loading and error states, and the requests started through             *)
(* executeRequest, each "pending", "resolved" or "rejected".               *)
(***************************************************************************)
VARIABLES user, loading, hookError, hookRequests

hookVars == <<user, loading, hookError, hookRequests>>

(***************************************************************************)
(* VideoGenerationPage and its child StoryboardView.                       *)
(*   view, scenes, videoLoading, videoError, activeTab, uploadedImageFile, *)
(*   finalResult   the useState values of the page (scenes is the list of  *)
(*                 scene prompts, a scene's id its position)               *)
(*   isEnhancing   the useState value of StoryboardView, 0 for null        *)
(*   videoCalls    the handler runs that reached an await, each with the   *)
(*                 await it is at and two history flags: stale (a reset    *)
(*                 happened since it started) and orphan (the              *)
(*                 StoryboardView that started it has unmounted)           *)
(*   afterReset    history: handleReset ran and no storyboard generation   *)
(*                 was started since                                       *)
(***************************************************************************)
VARIABLES view, scenes, videoLoading, videoError, activeTab, uploadedImageFile, finalResult, isEnhancing, videoCalls, afterReset

videoVars == <<view, scenes, videoLoading, videoError, activeTab, uploadedImageFile, finalResult, isEnhancing, videoCalls, afterReset>>

(***************************************************************************)
(* HistoryPage: the filter values, the item list (one entry per page of    *)
(* items received, naming the query and the page it answers), the loading, *)
(* error and paging states, and the runs of loadHistory with the filter    *)
(* values their closure holds.                                             *)
(***************************************************************************)
VARIABLES filterType, sortBy, searchQuery, historyItems, historyLoading, historyError, currentPage, hasMore, historyCalls

historyVars == <<filterType, sortBy, searchQuery, historyItems, historyLoading, historyError, currentPage, hasMore, historyCalls>>

(***************************************************************************)
(* MediaViewerModal: the item and isOpen props, the state object of the    *)
(* component, and (history) the load errors in a row since the modal was   *)
(* opened, the media loaded, or Retry was pressed.                         *)
(***************************************************************************)
VARIABLES viewerItem, isOpen, viewer, errorsInRow

viewerVars == <<viewerItem, isOpen, viewer, errorsInRow>>

\* the state of the components modelled on their own
restVars == <<combineVars, hookVars, videoVars, historyVars, viewerVars>>

vars == <<apiVars, pageVars, restVars>>

Event(name, result) == [name |-> name, result |-> result, before |-> Len(calls)]

\* the useState initial values
PageInit ==
  /\ mounted = TRUE
  /\ prompt = <<>>
  /\ isGenerating = FALSE
  /\ isRewriting = FALSE
  /\ generatedImages = <<>>
  /\ pageError = UNDEF
  /\ abortController = 0
  /\ rewriteController = 0
  /\ calls = <<>>
  /\ lastEvent = [name |-> "none", result |-> "none", before |-> 0]

\* the most signal objects, and the most arguments of one call
MaxSignals == 2
MaxArgs == 3

SignalObjects == 1..MaxSignals

\* no call of combineAbortSignals yet: no controller, no listener
NoController == [created |-> FALSE, aborted |-> FALSE, abortEvents |-> 0]

CombineInit ==
  /\ combineArgs = <<>>
  /\ inputAborted = [o \in SignalObjects |-> FALSE]
  /\ handlerOn = [o \in SignalObjects |-> FALSE]
  /\ combined = NoController

\* the most requests started through one hook instance
MaxHookCalls == 3

\* useState(false), useState(null), no request started, nobody logged in
HookInit ==
  /\ user = UNDEF
  /\ loading = FALSE
  /\ hookError = UNDEF
  /\ hookRequests = <<>>

\* the most handler runs of the video page, scenes of a storyboard, and
\* clips of a final video
MaxVideoCalls == 3
MaxScenes == 2
MaxClips == 1

\* the useState initial values of VideoGenerationPage and StoryboardView
VideoInit ==
  /\ view = "FORM"
  /\ scenes = <<>>
  /\ videoLoading = FALSE
  /\ videoError = ""
  /\ activeTab = "text_to_video"
  /\ uploadedImageFile = FALSE
  /\ finalResult = FALSE
  /\ isEnhancing = 0
  /\ videoCalls = <<>>
  /\ afterReset = FALSE

\* the most runs of loadHistory after the one of the mount, and the highest
\* page asked for
MaxHistoryCalls == 3
MaxPage == 3

\* the parameters getHistory is called with
HistoryQuery(type, sort, search) == [type |-> type, sort_by |-> sort, search |-> search]

HistoryCall(query, page, append) ==
  [query |-> query, page |-> page, append |-> append, status |-> "inflight"]

\* the useState initial values and the run of loadHistory(1, false) the
\* effect starts on mount
HistoryInit ==
  /\ filterType = "all"
  /\ sortBy = "newest"
  /\ searchQuery = ""
  /\ historyItems = <<>>
  /\ historyLoading = TRUE
  /\ historyError = UNDEF
  /\ currentPage = 1
  /\ hasMore = FALSE
  /\ historyCalls = <<HistoryCall(HistoryQuery("all", "newest", ""), 1, FALSE)>>

\* the longest mediaUrls array of a history item
MaxUrls == 2

\* the fallback of getMediaUrl and of the error handler
Placeholder == "/placeholder.svg"

\* strings whose trim() is empty
BlankUrls == {"", " "}

\* the history items the modal is opened with
MediaUrlValues == BlankUrls \cup {"https://cdn/a.png", "https://cdn/b.png", Placeholder}
ThumbnailValues == BlankUrls \cup {UNDEF, "https://cdn/a.png", "https://cdn/t.png", Placeholder}
ViewerItems ==
  {[mediaUrls |-> urls, thumbnail |-> thumb] :
     urls \in UNION {[1..n -> MediaUrlValues] : n \in 0..MaxUrls}, thumb \in ThumbnailValues}

\* the useState initial value; no item, modal closed
ViewerInit ==
  /\ viewerItem = [mediaUrls |-> <<>>, thumbnail |-> UNDEF]
  /\ isOpen = FALSE
  /\ viewer = [isLoading |-> TRUE, hasError |-> FALSE, currentMediaUrl |-> "",
               failedUrls |-> <<>>]
  /\ errorsInRow = 0

Init ==
  /\ PageInit
  /\ CombineInit
  /\ HookInit
  /\ VideoInit
  /\ HistoryInit
  /\ ViewerInit
  /\ cookie = UNDEF
  /\ nav = 0
  /\ pc = "idle"
  /\ fn = "none"
  /\ req = NoRequest
  /\ sig = "none"
  /\ hasListener = FALSE
  /\ timer = "unset"
  /\ ctlAborted = FALSE
  /\ fetchCount = 0
  /\ effectiveSignal = "none"
  /\ authHeader = UNDEF
  /\ netAborts = 0
  /\ resp = NoResponse
  /\ outcome = Pending

getAuthHeaders(token) == IF Truthy(token) THEN "Bearer " \o token ELSE UNDEF

\* clearTimeout(timeoutId): a timer that has fired stays fired
clearTimeout(t) == IF t = "armed" THEN "cleared" ELSE t

\* the call reaches `await fetch(...)`: one network request is issued
IssueFetch(f, r, s, signalUsed, t, listener, header) ==
  /\ pc' = "inflight"
  /\ fn' = f
  /\ req' = r
  /\ sig' = s
  /\ hasListener' = listener
  /\ timer' = t
  /\ fetchCount' = 1
  /\ effectiveSignal' = signalUsed
  /\ authHeader' = header
  /\ outcome' = Pending
  /\ UNCHANGED <<cookie, nav, ctlAborted, netAborts, resp>>

\* the call throws before any network request is issued
ThrowEarly(f, r, s, t, error) ==
  /\ pc' = "done"
  /\ fn' = f
  /\ req' = r
  /\ sig' = s
  /\ timer' = t
  /\ outcome' = error
  /\ UNCHANGED <<cookie, nav, hasListener, ctlAborted, fetchCount, effectiveSignal,
                 authHeader, netAborts, resp>>

\* the wrapper looking at the caller's token before it validates the request
WrappedCall_TokenCheckedFirst(f, r, s, errs, prefix) ==
  IF s = "aborted"
    THEN ThrowEarly(f, r, s, "cleared", JsError("Error", "Request was already cancelled"))
  ELSE IF Len(errs) > 0
    THEN ThrowEarly(f, r, s, "unset", ValidationFailure(prefix, errs, "{request}"))
  ELSE IssueFetch(f, r, s, IF s = "none" THEN "controller" ELSE "caller", "armed",
                  s = "live", getAuthHeaders(cookie))

\* generateImages / rewritePrompt up to the await: validation, the timeout
\* controller, the pre-cancelled check and the listeners
WrappedCall(f, r, s, errs, prefix) ==
  IF Len(errs) > 0
    THEN ThrowEarly(f, r, s, "unset", ValidationFailure(prefix, errs, "{request}"))
  ELSE IF s = "aborted"
    THEN ThrowEarly(f, r, s, "cleared", JsError("Error", "Request was already cancelled"))
  ELSE IssueFetch(f, r, s, IF s = "none" THEN "controller" ELSE "caller", "armed",
                  s = "live", getAuthHeaders(cookie))

GenerateImages(r, s) ==
  /\ UNCHANGED <<pageVars, restVars>>
  /\ pc = "idle"
  /\ WrappedCall("generateImages", r, s, validateImageGenerationRequest(r),
                 "Request validation failed: ")

RewritePrompt(r, s) ==
  /\ UNCHANGED <<pageVars, restVars>>
  /\ pc = "idle"
  /\ WrappedCall("rewritePrompt", r, s, validatePromptRewriteRequest(r),
                 "Rewrite request validation failed: ")

\* a function that hands the caller's signal straight to fetch; fetch with an
\* aborted signal rejects at once and sends nothing
SignalCall(f, s) ==
  IF s = "aborted"
    THEN ThrowEarly(f, NoRequest, s, "unset", CatchBlock(f, FetchAborted))
  ELSE IssueFetch(f, NoRequest, s, IF s = "none" THEN "none" ELSE "caller", "unset",
                  FALSE, getAuthHeaders(cookie))

SimpleCall(f, s) ==
  /\ UNCHANGED <<pageVars, restVars>>
  /\ pc = "idle"
  /\ f \in SimpleFns
  /\ SignalCall(f, s)

DownloadImage(s) ==
  /\ UNCHANGED <<pageVars, restVars>>
  /\ pc = "idle"
  /\ SignalCall("downloadImage", s)

EditImage(s) ==
  /\ UNCHANGED <<pageVars, restVars>>
  /\ pc = "idle"
  /\ SignalCall("editImage", s)

\* fetchApi: its own controller and timer, no Authorization header
FetchApiCall(f) ==
  /\ UNCHANGED <<pageVars, restVars>>
  /\ pc = "idle"
  /\ f \in FetchApiFns
  /\ IssueFetch(f, NoRequest, "none", "controller", "armed", FALSE, UNDEF)

UploadFileViaProxy ==
  /\ UNCHANGED <<pageVars, restVars>>
  /\ pc = "idle"
  /\ IssueFetch("uploadFileViaProxy", NoRequest, "none", "none", "unset", FALSE, UNDEF)

\* the fetch promise settles with `thrown` (or resolves when `thrown` is what
\* the body of the function produced from the response): the catch block and
\* the clearTimeout calls of the function run
Settle(thrown) ==
  /\ pc' = "done"
  /\ outcome' = CatchBlock(fn, thrown)
  /\ timer' = clearTimeout(timer)

\* the server answers; on 401 authenticatedFetch and editImage run
\* handleAuthError (Cookies.remove, window.location.href = '/')
ServerRespond(status, body) ==
  /\ UNCHANGED <<pageVars, restVars>>
  /\ pc = "inflight"
  /\ LET is401 == status = 401 /\ fn \in SignalFns IN
     /\ resp' = Response(status, body)
     /\ Settle(IF is401 THEN AuthRequired ELSE AfterFetch(fn, Response(status, body)))
     /\ cookie' = IF is401 THEN UNDEF ELSE cookie
     /\ nav' = IF is401 THEN nav + 1 ELSE nav
  /\ UNCHANGED <<fn, req, sig, hasListener, ctlAborted, fetchCount, effectiveSignal,
                 authHeader, netAborts>>

\* fetch rejects with a TypeError
NetworkFail ==
  /\ UNCHANGED <<pageVars, restVars>>
  /\ pc = "inflight"
  /\ Settle(FetchFailed)
  /\ UNCHANGED <<cookie, nav, fn, req, sig, hasListener, ctlAborted, fetchCount,
                 effectiveSignal, authHeader, netAborts, resp>>

\* the caller aborts its token: abortHandler (if still attached) clears the
\* timer and aborts the controller; a fetch that was given the token rejects
CallerAbort ==
  /\ UNCHANGED <<pageVars, restVars>>
  /\ sig = "live"
  /\ pc \in {"inflight", "done"}
  /\ sig' = "aborted"
  /\ hasListener' = FALSE
  /\ ctlAborted' = (ctlAborted \/ hasListener)
  /\ IF pc = "inflight"
       THEN /\ netAborts' = netAborts + 1
            /\ Settle(FetchAborted)
       ELSE /\ timer' = IF hasListener THEN clearTimeout(timer) ELSE timer
            /\ UNCHANGED <<pc, outcome, netAborts>>
  /\ UNCHANGED <<cookie, nav, fn, req, fetchCount, effectiveSignal, authHeader, resp>>

\* the setTimeout callback: controller.abort(); the controller's abort
\* listener detaches abortHandler; only a fetch that was given the
\* controller's signal rejects
TimeoutFire ==
  /\ UNCHANGED <<pageVars, restVars>>
  /\ timer = "armed"
  /\ ctlAborted' = TRUE
  /\ hasListener' = FALSE
  /\ IF pc = "inflight" /\ effectiveSignal = "controller"
       THEN /\ netAborts' = netAborts + 1
            /\ pc' = "done"
            /\ outcome' = CatchBlock(fn, FetchAborted)
       ELSE UNCHANGED <<pc, outcome, netAborts>>
  /\ timer' = "fired"
  /\ UNCHANGED <<cookie, nav, fn, req, sig, fetchCount, effectiveSignal, authHeader, resp>>

\* the caller is done with the call; the next call starts afresh
Finish ==
  /\ UNCHANGED <<pageVars, restVars>>
  /\ pc = "done"
  /\ pc' = "idle"
  /\ nav' = 0
  /\ fn' = "none"
  /\ req' = NoRequest
  /\ sig' = "none"
  /\ hasListener' = FALSE
  /\ timer' = "unset"
  /\ ctlAborted' = FALSE
  /\ fetchCount' = 0
  /\ effectiveSignal' = "none"
  /\ authHeader' = UNDEF
  /\ netAborts' = 0
  /\ resp' = NoResponse
  /\ outcome' = Pending
  /\ UNCHANGED cookie

\* AuthService.login / register store the token
Login ==
  /\ UNCHANGED <<pageVars, restVars>>
  /\ pc = "idle"
  /\ cookie = UNDEF
  /\ cookie' = AuthToken
  /\ UNCHANGED <<nav, pc, fn, req, sig, hasListener, timer, ctlAborted, fetchCount,
                 effectiveSignal, authHeader, netAborts, resp, outcome>>

Signals == {"none", "live", "aborted"}

Next ==
  \/ \E r \in ImageRequests, s \in Signals : GenerateImages(r, s)
  \/ \E r \in RewriteRequests, s \in Signals : RewritePrompt(r, s)
  \/ \E f \in SimpleFns, s \in Signals : SimpleCall(f, s)
  \/ \E s \in Signals : DownloadImage(s)
  \/ \E s \in Signals : EditImage(s)
  \/ \E f \in FetchApiFns : FetchApiCall(f)
  \/ UploadFileViaProxy
  \/ \E status \in Statuses, body \in Bodies : ServerRespond(status, body)
  \/ NetworkFail
  \/ CallerAbort
  \/ TimeoutFire
  \/ Finish
  \/ Login

Spec == Init /\ [][Next]_vars

(***************************************************************************)
(* lib/types.ts: the request builders.  A builder returns ok = TRUE with   *)
(* the request, or ok = FALSE with the Error it throws.                    *)
(***************************************************************************)
\* an optional filter is put in the request only if truthy and not "none"
FilterOrOmitted(v) == IF Truthy(v) /\ v # "none" THEN v ELSE UNDEF

\* a builder that returns the request whatever the validator says
createImageGenerationRequest_NeverThrows(text, ratio, resolution, style, contentType, colorTone, lighting, composition, numImages) ==
  [ok |-> TRUE,
   request |-> [isObject |-> TRUE, prompt |-> text, ratio |-> ratio,
                resolution |-> resolution, style |-> style,
                contentType |-> FilterOrOmitted(contentType),
                colorTone |-> FilterOrOmitted(colorTone),
                lighting |-> FilterOrOmitted(lighting),
                composition |-> FilterOrOmitted(composition),
                numImages |-> numImages],
   error |-> JsError("Error", "Invalid request: ")]

createImageGenerationRequest(text, ratio, resolution, style, contentType, colorTone, lighting, composition, numImages) ==
  LET request == [isObject |-> TRUE, prompt |-> text, ratio |-> ratio,
                  resolution |-> resolution, style |-> style,
                  contentType |-> FilterOrOmitted(contentType),
                  colorTone |-> FilterOrOmitted(colorTone),
                  lighting |-> FilterOrOmitted(lighting),
                  composition |-> FilterOrOmitted(composition),
                  numImages |-> numImages]
      errors == validateImageGenerationRequest(request)
  IN [ok |-> Len(errors) = 0, request |-> request,
      error |-> JsError("Error", "Invalid request: " \o FormatErrors(errors))]

createPromptRewriteRequest(text) ==
  LET request == [isObject |-> TRUE, prompt |-> text]
      errors == validatePromptRewriteRequest(request)
  IN [ok |-> Len(errors) = 0, request |-> request,
      error |-> JsError("Error", "Invalid rewrite request: " \o FormatErrors(errors))]

(***************************************************************************)
(* ImageGenerationPage: the functions its handlers call.                   *)
(***************************************************************************)
\* the shortest prompt validateInputs accepts
MinPromptLen == 3

\* validateInputs: null (UNDEF) or the first message.  The four selects are
\* written only by the setValidated... setters, which store members of their
\* sets only; the model keeps them at their initial values.
validateInputs(text) ==
  LET trimmedPrompt == Trim(text) IN
  IF Len(trimmedPrompt) = 0 THEN "Please enter a prompt to generate images."
  ELSE IF Len(trimmedPrompt) < MinPromptLen
    THEN "Prompt must be at least 3 characters long."
  ELSE IF Len(trimmedPrompt) > MaxPromptLen
    THEN "Prompt must be less than 2000 characters."
  ELSE UNDEF

\* replace(/\s+/g, ' '): every run of whitespace becomes one space
RECURSIVE CollapseWhitespace(_)
CollapseWhitespace(s) ==
  IF Len(s) = 0 THEN <<>>
  ELSE IF Head(s) \in Whitespace
    THEN IF Len(s) > 1 /\ s[2] \in Whitespace
           THEN CollapseWhitespace(Tail(s))
         ELSE <<" ">> \o CollapseWhitespace(Tail(s))
  ELSE <<Head(s)>> \o CollapseWhitespace(Tail(s))

\* the mark of an Error whose message, built from the validator's list,
\* contains the word 'validation'
MessageIncludesValidation == "message.includes('validation')"

\* formatRequestPayload with the selects at their initial values and
\* numImages 2; a builder error is rethrown with a longer message
formatRequestPayload(text) ==
  LET built == createImageGenerationRequest(
                 PString(CollapseWhitespace(Trim(text))), "1:1", "1024x1024", "realistic",
                 "none", "none", "none", "none", [t |-> "number", n |-> 2])
  IN [built EXCEPT !.error =
        [JsError("Error", "Request formatting failed: Request validation failed: "
                          \o built.error.message)
           EXCEPT !.details = MessageIncludesValidation]]

\* the Error of processImageResponse for an empty images array, as rethrown
\* by handleGenerate
NoImagesFailure ==
  JsError("Error",
          "Image processing failed: Failed to process generated images: "
          \o "No images were generated. Please try again with a different prompt.")

\* the page's handleApiError: the message shown for an error
ImageGenerationPage_handleApiError(error) ==
  IF error.kind = "AbortError" THEN "Request was cancelled. Please try again."
  ELSE IF error.kind = "ApiServiceError"
    THEN IF error.code = "VALIDATION_ERROR" /\ Len(error.validationErrors) > 0
           THEN "Validation error: " \o FormatErrors(error.validationErrors)
         ELSE CASE error.code = "NETWORK_ERROR" ->
                     "Unable to connect to the server. Please check your internet "
                     \o "connection and try again."
                [] error.code = "REQUEST_CANCELLED" ->
                     "Request timed out. The server may be busy. Please try again."
                [] error.code = "HTTP_400" ->
                     "Invalid request. Please check your inputs and try again."
                [] error.code = "HTTP_401" ->
                     "Authentication required. Please check your credentials."
                [] error.code = "HTTP_403" ->
                     "Access denied. You don't have permission to generate images."
                [] error.code = "HTTP_404" ->
                     "Image generation service not found. Please contact support."
                [] error.code = "HTTP_429" ->
                     "Too many requests. Please wait a moment before trying again."
                [] error.code \in {"HTTP_500", "HTTP_502", "HTTP_503", "HTTP_504"} ->
                     "Server error. Please try again in a few moments."
                [] error.code = "INVALID_PROMPT" ->
                     "Please enter a valid prompt for image generation."
                [] error.code = "INVALID_RATIO" -> "Please select a valid aspect ratio."
                [] error.code = "INVALID_RESOLUTION" -> "Please select a valid resolution."
                [] error.code = "INVALID_STYLE" -> "Please select a valid style."
                [] error.code = "VALIDATION_ERROR" ->
                     "Input validation failed. Please check your inputs and try again."
                [] error.code = "PARSE_ERROR" ->
                     "Received invalid response from server. Please try again."
                [] error.code = "INVALID_RESPONSE" ->
                     "Server returned unexpected data. Please try again."
                [] error.code = "API_ERROR" ->
                     "Image generation service error. Please try again."
                [] OTHER ->
                     OrElse(error.message, "An unexpected error occurred. Please try again.")
  ELSE IF error.kind = "TypeError"
    THEN "Network error. Please check your connection and try again."
  ELSE IF error = NoImagesFailure
    \* longer than 100 characters and without a keyword: the error-like
    \* object branch
    THEN "Error: " \o error.message
  ELSE IF error.details = MessageIncludesValidation
    THEN "Input validation failed. Please check your inputs and try again."
  ELSE error.message

\* error.includes('network') || error.includes('server') ||
\* error.includes('timeout') || error.includes('connection'), case-sensitive:
\* the messages of the page that contain one of the four words
RetryShown(message) ==
  message \in
    {"Unable to connect to the server. Please check your internet "
     \o "connection and try again.",
     "Request timed out. The server may be busy. Please try again.",
     "Received invalid response from server. Please try again.",
     "Network error. Please check your connection and try again."}

\* error.includes('prompt'), case-sensitive
MentionsPrompt(message) ==
  message \in
    {"Please enter a prompt to generate images.",
     "Please enter a valid prompt for image generation.",
     "Error: " \o NoImagesFailure.message}

isGenerateDisabled(text, generating) == validateInputs(text) # UNDEF \/ generating

(***************************************************************************)
(* ImageGenerationPage: requests, controllers and the effect cleanup.      *)
(***************************************************************************)
\* the requests one mounted page starts
MaxCalls == 2

\* generateImages(request, controller.signal) / rewritePrompt(...) up to the
\* first await, called with a fresh controller: the promise is rejected at
\* once ("settled") for an invalid request, and pending on fetch otherwise
ApiStart(f, slot, request) ==
  LET errs == IF f = "generateImages" THEN validateImageGenerationRequest(request)
              ELSE validatePromptRewriteRequest(request)
      prefix == IF f = "generateImages" THEN "Request validation failed: "
                ELSE "Rewrite request validation failed: "
  IN [fn |-> f, slot |-> slot, aborted |-> FALSE,
      status |-> IF Len(errs) > 0 THEN "settled" ELSE "inflight",
      outcome |-> IF Len(errs) > 0 THEN ValidationFailure(prefix, errs, "{request}")
                  ELSE Pending,
      images |-> <<>>, enhanced |-> UNDEF,
      abortedBy |-> "none", stored |-> FALSE, raisedError |-> FALSE]

\* controller.abort() on the controller of a request: a fetch still pending
\* rejects with AbortError, which the catch block of the API function turns
\* into its own error; abortedBy keeps who aborted a request in flight
Abort(call, by) ==
  IF call.status = "inflight"
    THEN [call EXCEPT !.aborted = TRUE, !.status = "settled",
                      !.outcome = CatchBlock(call.fn, FetchAborted), !.abortedBy = by]
  ELSE [call EXCEPT !.aborted = TRUE]

\* safeAbort with its test inverted: it aborts nothing
safeAbort_InvertedTest(cs, ids, by) == cs

\* safeAbort(controller) for each controller of ids (0 is null): aborts the
\* controller unless it is null or already aborted
safeAbort(cs, ids, by) ==
  [c \in 1..Len(cs) |-> IF c \in ids /\ ~cs[c].aborted THEN Abort(cs[c], by) ELSE cs[c]]

\* the re-render after a handler: the cleanup of the effect with
\* dependencies [abortController, rewriteController] runs when one of them
\* changed, and aborts the controllers of the render it was created in
EffectCleanup(cs, newAbort, newRewrite, by) ==
  IF <<newAbort, newRewrite>> # <<abortController, rewriteController>>
    THEN safeAbort(cs, {abortController, rewriteController}, "effect after " \o by)
  ELSE cs

\* a promise has settled and its continuation has not run yet: it runs
\* before any other event is handled
Busy == \E c \in 1..Len(calls) : calls[c].status = "settled"

InFlight(c) == calls[c].status = "inflight"

(***************************************************************************)
(* ImageGenerationPage: the handlers.                                      *)
(***************************************************************************)
\* handleGenerate up to its await
handleGenerate(name) ==
  /\ mounted
  /\ ~Busy
  /\ Len(calls) < MaxCalls
  /\ LET validationError == validateInputs(prompt)
         built == formatRequestPayload(prompt)
         aborted == safeAbort(calls, {abortController}, "handleGenerate")
         id == Len(calls) + 1
     IN IF validationError # UNDEF
          THEN /\ pageError' = validationError
               /\ lastEvent' = Event(name, "rejected")
               /\ UNCHANGED <<isGenerating, abortController, calls>>
        ELSE IF ~built.ok
          THEN /\ pageError' = ImageGenerationPage_handleApiError(built.error)
               /\ isGenerating' = FALSE
               /\ abortController' = 0
               /\ calls' = EffectCleanup(aborted, 0, rewriteController, name)
               /\ lastEvent' = Event(name, "failed")
        ELSE /\ pageError' = UNDEF
             /\ isGenerating' = TRUE
             /\ abortController' = id
             /\ calls' = EffectCleanup(
                           Append(aborted, ApiStart("generateImages", "generate",
                                                    built.request)),
                           id, rewriteController, name)
             /\ lastEvent' = Event(name, "started")
  /\ UNCHANGED <<mounted, prompt, isRewriting, generatedImages, rewriteController>>
  /\ UNCHANGED <<apiVars, restVars>>

\* the Generate button
Generate ==
  /\ ~isGenerateDisabled(prompt, isGenerating)
  /\ handleGenerate("Generate")

\* the Retry button of the error alert: dismissError(); handleGenerate()
Retry ==
  /\ pageError # UNDEF
  /\ RetryShown(pageError)
  /\ ~isGenerating
  /\ handleGenerate("Retry")

\* the Cancel button, shown while isGenerating
Cancel ==
  /\ mounted
  /\ ~Busy
  /\ isGenerating
  /\ abortController' = 0
  /\ isGenerating' = FALSE
  /\ pageError' = UNDEF
  /\ calls' = EffectCleanup(safeAbort(calls, {abortController}, "Cancel"),
                            0, rewriteController, "Cancel")
  /\ lastEvent' = Event("Cancel", "done")
  /\ UNCHANGED <<mounted, prompt, isRewriting, generatedImages, rewriteController>>
  /\ UNCHANGED <<apiVars, restVars>>

handleClear ==
  /\ mounted
  /\ ~Busy
  /\ abortController' = 0
  /\ rewriteController' = 0
  /\ prompt' = <<>>
  /\ generatedImages' = <<>>
  /\ pageError' = UNDEF
  /\ isGenerating' = FALSE
  /\ isRewriting' = FALSE
  /\ calls' = EffectCleanup(
                safeAbort(calls, {abortController, rewriteController}, "handleClear"),
                0, 0, "handleClear")
  /\ lastEvent' = Event("handleClear", "done")
  /\ UNCHANGED mounted
  /\ UNCHANGED <<apiVars, restVars>>

\* the Rewrite button and handleRewrite up to its await
handleRewrite ==
  /\ mounted
  /\ ~Busy
  /\ Len(calls) < MaxCalls
  /\ Len(Trim(prompt)) > 0
  /\ ~isRewriting
  /\ ~isGenerating
  /\ LET built == createPromptRewriteRequest(PString(Trim(prompt)))
         aborted == safeAbort(calls, {rewriteController}, "handleRewrite")
         id == Len(calls) + 1
     IN IF ~built.ok
          THEN /\ isRewriting' = FALSE
               /\ rewriteController' = 0
               /\ calls' = EffectCleanup(aborted, abortController, 0, "handleRewrite")
               /\ lastEvent' = Event("handleRewrite", "failed")
        ELSE /\ isRewriting' = TRUE
             /\ rewriteController' = id
             /\ calls' = EffectCleanup(
                           Append(aborted, ApiStart("rewritePrompt", "rewrite",
                                                    built.request)),
                           abortController, id, "handleRewrite")
             /\ lastEvent' = Event("handleRewrite", "started")
  /\ pageError' = UNDEF
  /\ UNCHANGED <<mounted, prompt, isGenerating, generatedImages, abortController>>
  /\ UNCHANGED <<apiVars, restVars>>

\* processImageResponse on the items of a non-empty images array: an item
\* that is not a non-empty string becomes the placeholder, a URL stays
processImageResponse(items) ==
  [i \in 1..Len(items) |->
     IF ~IsString(items[i]) \/ items[i] = "" THEN "/placeholder.svg" ELSE items[i]]

\* the catch and finally of handleGenerate skipping cleanup() on the early
\* return and on every error
GenerationResult_CleanupOnSuccessOnly(call) ==
  IF call.outcome.kind = "returned" /\ Len(call.images) > 0
    THEN [stored |-> TRUE, images |-> processImageResponse(call.images),
          raised |-> FALSE, message |-> UNDEF, cleanup |-> TRUE]
  ELSE [stored |-> FALSE, images |-> <<>>, raised |-> FALSE, message |-> UNDEF,
        cleanup |-> FALSE]

\* handleGenerate storing whatever list the response holds, without the
\* length test of processImageResponse
GenerationResult_NoLengthTest(call) ==
  IF call.outcome.kind = "returned"
    THEN [stored |-> TRUE, images |-> processImageResponse(call.images),
          raised |-> FALSE, message |-> UNDEF, cleanup |-> TRUE]
  ELSE IF call.outcome.kind = "AbortError"
    THEN [stored |-> FALSE, images |-> <<>>, raised |-> FALSE, message |-> UNDEF,
          cleanup |-> TRUE]
  ELSE [stored |-> FALSE, images |-> <<>>, raised |-> TRUE,
        message |-> ImageGenerationPage_handleApiError(call.outcome), cleanup |-> TRUE]

\* handleGenerate after its await: what the try, catch and finally blocks do
\* with the settled promise of generateImages
GenerationResult(call) ==
  IF call.outcome.kind = "returned"
    THEN IF Len(call.images) = 0
           THEN [stored |-> FALSE, images |-> <<>>, raised |-> TRUE,
                 message |-> ImageGenerationPage_handleApiError(NoImagesFailure),
                 cleanup |-> TRUE]
         ELSE [stored |-> TRUE, images |-> processImageResponse(call.images),
               raised |-> FALSE, message |-> UNDEF, cleanup |-> TRUE]
  ELSE IF call.outcome.kind = "AbortError"
    THEN [stored |-> FALSE, images |-> <<>>, raised |-> FALSE, message |-> UNDEF,
          cleanup |-> TRUE]
  ELSE [stored |-> FALSE, images |-> <<>>, raised |-> TRUE,
        message |-> ImageGenerationPage_handleApiError(call.outcome), cleanup |-> TRUE]

\* the continuation of handleGenerate for request c; the setters of an
\* unmounted component change nothing
GenerateSettled(c) ==
  /\ c \in 1..Len(calls)
  /\ calls[c].status = "settled"
  /\ calls[c].slot = "generate"
  /\ LET r == GenerationResult(calls[c])
         finished == [calls EXCEPT ![c].status = "done",
                                   ![c].aborted = @ \/ r.cleanup,
                                   ![c].stored = mounted /\ r.stored,
                                   ![c].raisedError = mounted /\ r.raised]
         newAbort == IF r.cleanup THEN 0 ELSE abortController
     IN IF mounted
          THEN /\ generatedImages' = IF r.stored THEN r.images ELSE generatedImages
               /\ pageError' = IF r.raised THEN r.message ELSE pageError
               /\ abortController' = newAbort
               /\ isGenerating' = IF r.cleanup THEN FALSE ELSE isGenerating
               /\ calls' = EffectCleanup(finished, newAbort, rewriteController,
                                         "GenerateSettled")
        ELSE /\ calls' = finished
             /\ UNCHANGED <<generatedImages, pageError, abortController, isGenerating>>
  /\ lastEvent' = Event("GenerateSettled", calls[c].outcome.kind)
  /\ UNCHANGED <<mounted, prompt, isRewriting, rewriteController>>
  /\ UNCHANGED <<apiVars, restVars>>

\* the characters of the enhanced prompt of the model's rewrite response
EnhancedPromptChars == <<"a", " ", "f", "l", "u", "f", "f", "y", " ", "c", "a", "t">>

TextChars(text) == IF text = "a fluffy cat" THEN EnhancedPromptChars ELSE <<>>

\* the continuation of handleRewrite for request c: a non-empty enhanced
\* prompt replaces the prompt, an error is only logged, cleanup() always runs
RewriteSettled(c) ==
  /\ c \in 1..Len(calls)
  /\ calls[c].status = "settled"
  /\ calls[c].slot = "rewrite"
  /\ LET enhanced == Trim(TextChars(calls[c].enhanced))
         finished == [calls EXCEPT ![c].status = "done", ![c].aborted = TRUE]
     IN IF mounted
          THEN /\ prompt' = IF calls[c].outcome.kind = "returned" /\ Len(enhanced) > 0
                              THEN enhanced ELSE prompt
               /\ rewriteController' = 0
               /\ isRewriting' = FALSE
               /\ calls' = EffectCleanup(finished, abortController, 0, "RewriteSettled")
        ELSE /\ calls' = finished
             /\ UNCHANGED <<prompt, rewriteController, isRewriting>>
  /\ lastEvent' = Event("RewriteSettled", calls[c].outcome.kind)
  /\ UNCHANGED <<mounted, isGenerating, generatedImages, pageError, abortController>>
  /\ UNCHANGED <<apiVars, restVars>>

(***************************************************************************)
(* The environment of the page: the user, the server and the router.       *)
(***************************************************************************)
PagePrompts ==
  {<<>>, <<" ">>, <<"a", "b">>, <<"a", "b", "c">>, <<" ", "a", " ", "\t", "b", " ">>}

\* onChange of the textarea (and handleRandom): the text is stored if it is
\* not too long, and an error that mentions the prompt is cleared
Type(text) ==
  /\ mounted
  /\ ~Busy
  /\ text # prompt
  /\ Len(text) <= MaxPromptLen
  /\ prompt' = text
  /\ pageError' = IF pageError # UNDEF /\ MentionsPrompt(pageError) THEN UNDEF
                  ELSE pageError
  /\ lastEvent' = Event("Type", "done")
  /\ UNCHANGED <<mounted, isGenerating, isRewriting, generatedImages, abortController,
                 rewriteController, calls>>
  /\ UNCHANGED <<apiVars, restVars>>

ImageUrl == "https://img/1.png"

PageBodies ==
  {NotJsonBody,
   [EmptyBody EXCEPT !.success = JSFALSE, !.error = "quota exceeded",
                     !.code = "QUOTA_EXCEEDED"],
   [EmptyBody EXCEPT !.success = JSTRUE, !.original_prompt = "a cat",
                     !.enhanced_prompt = "a fluffy cat", !.message = "ok"]}
  \cup {[EmptyBody EXCEPT !.success = JSTRUE,
                          !.images = [isArray |-> TRUE, items |-> [i \in 1..n |-> ImageUrl]]] :
          n \in 0..MaxImages}

PageStatuses == {200, 500}

\* the promise of request c settles with what the API function makes of the
\* server's answer
PageSettle(c, thrown, body) ==
  /\ c \in 1..Len(calls)
  /\ ~Busy
  /\ InFlight(c)
  /\ calls' = [calls EXCEPT ![c].status = "settled",
                            ![c].outcome = CatchBlock(calls[c].fn, thrown),
                            ![c].images = IF body.images.isArray THEN body.images.items
                                          ELSE <<>>,
                            ![c].enhanced = body.enhanced_prompt]
  /\ UNCHANGED <<mounted, prompt, isGenerating, isRewriting, generatedImages, pageError,
                 abortController, rewriteController>>
  /\ UNCHANGED <<apiVars, restVars>>

PageRespond(c, status, body) ==
  /\ c \in 1..Len(calls)
  /\ PageSettle(c, AfterFetch(calls[c].fn, Response(status, body)), body)
  /\ lastEvent' = Event("PageRespond", ToString(status))

PageNetworkFail(c) ==
  /\ PageSettle(c, FetchFailed, EmptyBody)
  /\ lastEvent' = Event("PageNetworkFail", "done")

\* the component unmounts: the cleanup of the effect aborts the controllers
\* of the last render
Unmount ==
  /\ mounted
  /\ ~Busy
  /\ mounted' = FALSE
  /\ calls' = safeAbort(calls, {abortController, rewriteController}, "Unmount")
  /\ lastEvent' = Event("Unmount", "done")
  /\ UNCHANGED <<prompt, isGenerating, isRewriting, generatedImages, pageError,
                 abortController, rewriteController>>
  /\ UNCHANGED <<apiVars, restVars>>

\* the page is opened again: a new component with the initial state
Remount ==
  /\ ~mounted
  /\ ~Busy
  /\ mounted' = TRUE
  /\ prompt' = <<>>
  /\ isGenerating' = FALSE
  /\ isRewriting' = FALSE
  /\ generatedImages' = <<>>
  /\ pageError' = UNDEF
  /\ abortController' = 0
  /\ rewriteController' = 0
  /\ calls' = <<>>
  /\ lastEvent' = [name |-> "none", result |-> "none", before |-> 0]
  /\ UNCHANGED <<apiVars, restVars>>

PageNext ==
  \/ Generate
  \/ Retry
  \/ Cancel
  \/ handleClear
  \/ handleRewrite
  \/ \E text \in PagePrompts : Type(text)
  \/ \E c \in 1..MaxCalls : GenerateSettled(c)
  \/ \E c \in 1..MaxCalls : RewriteSettled(c)
  \/ \E c \in 1..MaxCalls, status \in PageStatuses, body \in PageBodies :
       PageRespond(c, status, body)
  \/ \E c \in 1..MaxCalls : PageNetworkFail(c)
  \/ Unmount
  \/ Remount

PageSpec == Init /\ [][PageNext]_vars


(***************************************************************************)
(* combineAbortSignals and the abort of one of its input signals.          *)
(***************************************************************************)
\* every state outside combineAbortSignals
outsideCombine == <<apiVars, pageVars, hookVars, videoVars, historyVars, viewerVars>>

\* signals.filter(signal => signal !== undefined), as a set of objects
validSignals(args) == {args[i] : i \in 1..Len(args)} \ {0}

\* validSignals.some(signal => signal.aborted), never true
AnyAborted_NoInitialCheck(args) == FALSE

\* validSignals.some(signal => signal.aborted)
AnyAborted(args) == \E o \in validSignals(args) : inputAborted[o]

\* controller.abort(): nothing on an aborted signal; else the flag is set and
\* the abort event dispatched
ControllerAbort(c) ==
  IF c.aborted THEN c ELSE [c EXCEPT !.aborted = TRUE, !.abortEvents = @ + 1]

\* the call: an aborted input aborts the new controller at once and no
\* listener is attached; else abortHandler is attached to every valid signal
combineAbortSignals ==
  /\ ~combined.created
  /\ \E n \in 0..MaxArgs : \E args \in [1..n -> {0} \cup SignalObjects] :
       /\ combineArgs' = args
       /\ IF AnyAborted(args)
            THEN /\ combined' = ControllerAbort([NoController EXCEPT !.created = TRUE])
                 /\ handlerOn' = handlerOn
          ELSE /\ combined' = [NoController EXCEPT !.created = TRUE]
               /\ handlerOn' = [o \in SignalObjects |-> o \in validSignals(args)]
  /\ UNCHANGED inputAborted
  /\ UNCHANGED outsideCombine

\* the owner of a signal object aborts it: its abort event runs abortHandler
\* if attached (once: true detaches it), which aborts the controller, whose
\* own abort listener detaches abortHandler from every valid signal
AbortInput(o) ==
  /\ ~inputAborted[o]
  /\ inputAborted' = [inputAborted EXCEPT ![o] = TRUE]
  /\ IF handlerOn[o]
       THEN /\ combined' = ControllerAbort(combined)
            /\ handlerOn' = IF combined.aborted THEN [handlerOn EXCEPT ![o] = FALSE]
                            ELSE [p \in SignalObjects |-> FALSE]
     ELSE UNCHANGED <<combined, handlerOn>>
  /\ UNCHANGED combineArgs
  /\ UNCHANGED outsideCombine

CombineNext ==
  \/ combineAbortSignals
  \/ \E o \in SignalObjects : AbortInput(o)

CombineSpec == Init /\ [][CombineNext]_vars


(***************************************************************************)
(* useApi: executeRequest and the settling of the promises it awaits.      *)
(***************************************************************************)
\* every state outside the hook
outsideHook == <<apiVars, pageVars, combineVars, videoVars, historyVars, viewerVars>>

\* the auth context gets a user, or loses it
HookLogin ==
  /\ user' = IF user = UNDEF THEN "user" ELSE UNDEF
  /\ UNCHANGED <<loading, hookError, hookRequests>>
  /\ UNCHANGED outsideHook

clearError ==
  /\ hookError # UNDEF
  /\ hookError' = UNDEF
  /\ UNCHANGED <<user, loading, hookRequests>>
  /\ UNCHANGED outsideHook

\* executeRequest up to its await: without a user an error and null; else
\* setLoading(true), setError(null) and the API call is started
executeRequest ==
  /\ Len(hookRequests) < MaxHookCalls
  /\ IF ~Truthy(user)
       THEN /\ hookError' = "Authentication required"
            /\ UNCHANGED <<loading, hookRequests>>
     ELSE /\ loading' = TRUE
          /\ hookError' = UNDEF
          /\ hookRequests' = Append(hookRequests, "pending")
  /\ UNCHANGED user
  /\ UNCHANGED outsideHook

\* the message the catch block stores for what the API call threw
HookErrorMessage(thrown) ==
  IF thrown.kind = "ApiServiceError" THEN thrown.message
  ELSE "An unexpected error occurred"

\* finally { setLoading(false) }
LoadingAfterSettle(flag) == FALSE

\* the promise of request r resolves: try returns, finally runs
HookResolve(r) ==
  /\ r \in 1..Len(hookRequests)
  /\ hookRequests[r] = "pending"
  /\ hookRequests' = [hookRequests EXCEPT ![r] = "resolved"]
  /\ loading' = LoadingAfterSettle(loading)
  /\ UNCHANGED <<user, hookError>>
  /\ UNCHANGED outsideHook

\* the promise of request r rejects: catch stores the message, finally runs
HookReject(r, thrown) ==
  /\ r \in 1..Len(hookRequests)
  /\ hookRequests[r] = "pending"
  /\ hookRequests' = [hookRequests EXCEPT ![r] = "rejected"]
  /\ hookError' = HookErrorMessage(thrown)
  /\ loading' = LoadingAfterSettle(loading)
  /\ UNCHANGED user
  /\ UNCHANGED outsideHook

\* what an API call of the hook may throw
HookThrown ==
  {FetchAborted, handleApiError(FetchFailed),
   ApiServiceError("quota exceeded", "QUOTA_EXCEEDED", UNDEF, <<>>)}

HookNext ==
  \/ HookLogin
  \/ clearError
  \/ executeRequest
  \/ \E r \in 1..MaxHookCalls : HookResolve(r)
  \/ \E r \in 1..MaxHookCalls, thrown \in HookThrown : HookReject(r, thrown)

HookSpec == Init /\ [][HookNext]_vars


(***************************************************************************)
(* VideoGenerationPage: rendering, handlers and the answers of the server. *)
(* A promise that settles and the continuation awaiting it are one step.   *)
(***************************************************************************)
\* every state outside the video page
outsideVideo == <<apiVars, pageVars, combineVars, hookVars, historyVars, viewerVars>>

\* renderWorkflowContent: StoryboardView is rendered when there is no error,
\* no spinner, and the view is STORYBOARD
StoryboardShown(v, e, l) == e = "" /\ ~(l /\ v # "FORM") /\ v = "STORYBOARD"

\* renderWorkflowContent: PromptForm is rendered
PromptFormShown ==
  /\ videoError = ""
  /\ view = "FORM"
  /\ activeTab = "text_to_video" \/ (activeTab = "image_to_video" /\ uploadedImageFile)

\* renderWorkflowContent: VideoResult is rendered
VideoResultShown == videoError = "" /\ ~videoLoading /\ view = "RESULT"

VideoCall(kind, stage, scene) ==
  [kind |-> kind, stage |-> stage, scene |-> scene, remaining |-> 0,
   status |-> "inflight", stale |-> FALSE, orphan |-> FALSE]

\* the enhance requests of a StoryboardView that is no longer rendered
Orphaned(cs, shown) ==
  [c \in DOMAIN cs |->
     IF ~shown /\ cs[c].kind = "enhance" /\ cs[c].status = "inflight"
       THEN [cs[c] EXCEPT !.orphan = TRUE]
     ELSE cs[c]]

\* the render after a handler: a StoryboardView that is not rendered loses
\* its state, a new one starts with isEnhancing null
Rerender(enhancing, cs) ==
  LET shown == StoryboardShown(view', videoError', videoLoading') IN
  /\ isEnhancing' = IF shown THEN enhancing ELSE 0
  /\ videoCalls' = Orphaned(cs, shown)

\* a handler run that has finished
Finished(cs, c) == [cs EXCEPT ![c].status = "done"]

\* handleReset; the requests in flight are untouched (stale is history)
handleReset ==
  /\ view' = "FORM"
  /\ scenes' = <<>>
  /\ videoError' = ""
  /\ uploadedImageFile' = FALSE
  /\ afterReset' = TRUE
  /\ UNCHANGED <<videoLoading, finalResult>>
  /\ Rerender(isEnhancing,
              [c \in DOMAIN videoCalls |->
                 IF videoCalls[c].status = "inflight"
                   THEN [videoCalls[c] EXCEPT !.stale = TRUE]
                 ELSE videoCalls[c]])
  /\ UNCHANGED outsideVideo

\* the Try Again button of the error panel
TryAgain ==
  /\ videoError # ""
  /\ handleReset
  /\ UNCHANGED activeTab

\* onValueChange of the tabs: handleReset(); setActiveTab(tab)
TabChange ==
  /\ handleReset
  /\ activeTab' = IF activeTab = "text_to_video" THEN "image_to_video" ELSE "text_to_video"

\* the X button on the preview of the uploaded image
RemoveImage ==
  /\ activeTab = "image_to_video"
  /\ uploadedImageFile
  /\ handleReset
  /\ UNCHANGED activeTab

\* the Start Over button of VideoResult
StartOver ==
  /\ VideoResultShown
  /\ handleReset
  /\ UNCHANGED activeTab

\* handleImageUpload with a file chosen
handleImageUpload ==
  /\ activeTab = "image_to_video"
  /\ ~uploadedImageFile
  /\ ~videoLoading
  /\ uploadedImageFile' = TRUE
  /\ view' = "FORM"
  /\ videoError' = ""
  /\ scenes' = <<>>
  /\ UNCHANGED <<videoLoading, activeTab, finalResult, afterReset>>
  /\ Rerender(isEnhancing, videoCalls)
  /\ UNCHANGED outsideVideo

\* handleGenerateStoryboard up to its first await, from the submit button of
\* PromptForm (disabled while isLoading)
handleGenerateStoryboard ==
  /\ PromptFormShown
  /\ ~videoLoading
  /\ Len(videoCalls) < MaxVideoCalls
  /\ videoLoading' = TRUE
  /\ videoError' = ""
  /\ afterReset' = FALSE
  /\ UNCHANGED <<view, scenes, activeTab, uploadedImageFile, finalResult>>
  /\ Rerender(isEnhancing,
              Append(videoCalls,
                     VideoCall("storyboard",
                               IF activeTab = "image_to_video" THEN "upload" ELSE "prompts",
                               0)))
  /\ UNCHANGED outsideVideo

\* uploadFileViaProxy resolved: the handler goes on to generateStoryboardPrompts
StoryboardUploaded(c) ==
  /\ c \in 1..Len(videoCalls)
  /\ videoCalls[c].kind = "storyboard"
  /\ videoCalls[c].status = "inflight"
  /\ videoCalls[c].stage = "upload"
  /\ videoCalls' = [videoCalls EXCEPT ![c].stage = "prompts"]
  /\ UNCHANGED <<view, scenes, videoLoading, videoError, activeTab, uploadedImageFile,
                 finalResult, isEnhancing, afterReset>>
  /\ UNCHANGED outsideVideo

\* the data of a storyboard answer: a scenes array, one prompt object, or
\* neither
StoryboardAnswers ==
  {[shape |-> "scenes", n |-> k] : k \in 0..MaxScenes}
  \cup {[shape |-> "prompt", n |-> 1], [shape |-> "neither", n |-> 0]}

\* generateStoryboardPrompts resolved: try, catch and finally of
\* handleGenerateStoryboard
StoryboardAnswered(c, answer) ==
  /\ c \in 1..Len(videoCalls)
  /\ videoCalls[c].kind = "storyboard"
  /\ videoCalls[c].status = "inflight"
  /\ videoCalls[c].stage = "prompts"
  /\ IF answer.shape = "neither"
       THEN /\ videoError' = "Invalid API response: Could not find scenes."
            /\ view' = "FORM"
            /\ UNCHANGED scenes
     ELSE /\ scenes' = [i \in 1..answer.n |-> "draft"]
          /\ view' = "STORYBOARD"
          /\ UNCHANGED videoError
  /\ videoLoading' = FALSE
  /\ UNCHANGED <<activeTab, uploadedImageFile, finalResult, afterReset>>
  /\ Rerender(isEnhancing, Finished(videoCalls, c))
  /\ UNCHANGED outsideVideo

\* the upload or generateStoryboardPrompts rejected: catch and finally
StoryboardFailed(c) ==
  /\ c \in 1..Len(videoCalls)
  /\ videoCalls[c].kind = "storyboard"
  /\ videoCalls[c].status = "inflight"
  /\ videoError' = "An API error occurred."
  /\ view' = "FORM"
  /\ videoLoading' = FALSE
  /\ UNCHANGED <<scenes, activeTab, uploadedImageFile, finalResult, afterReset>>
  /\ Rerender(isEnhancing, Finished(videoCalls, c))
  /\ UNCHANGED outsideVideo

\* handleGenerateVideo up to its first await, from the Generate Final Video
\* control of StoryboardView
handleGenerateVideo ==
  /\ StoryboardShown(view, videoError, videoLoading)
  /\ ~(videoLoading \/ isEnhancing # 0)
  /\ Len(videoCalls) < MaxVideoCalls
  /\ videoLoading' = TRUE
  /\ videoError' = ""
  /\ UNCHANGED <<view, scenes, activeTab, uploadedImageFile, finalResult, afterReset>>
  /\ Rerender(isEnhancing, Append(videoCalls, VideoCall("video", "video", 0)))
  /\ UNCHANGED outsideVideo

\* the end of the try block of handleGenerateVideo, and its finally
VideoDone(c) ==
  /\ finalResult' = TRUE
  /\ view' = "RESULT"
  /\ videoLoading' = FALSE
  /\ UNCHANGED <<scenes, videoError, activeTab, uploadedImageFile, afterReset>>
  /\ Rerender(isEnhancing, Finished(videoCalls, c))

\* generateFinalVideo resolved: one getDownloadUrl is awaited for the final
\* video when it has a gs_uri, and one for every clip
VideoAnswered(c, hasUri, clips) ==
  /\ c \in 1..Len(videoCalls)
  /\ videoCalls[c].kind = "video"
  /\ videoCalls[c].status = "inflight"
  /\ videoCalls[c].stage = "video"
  /\ LET awaits == (IF hasUri THEN 1 ELSE 0) + clips IN
     IF awaits = 0 THEN VideoDone(c)
     ELSE /\ videoCalls' = [videoCalls EXCEPT ![c].stage = "urls", ![c].remaining = awaits]
          /\ UNCHANGED <<view, scenes, videoLoading, videoError, activeTab,
                         uploadedImageFile, finalResult, isEnhancing, afterReset>>
  /\ UNCHANGED outsideVideo

\* one getDownloadUrl resolved
UrlAnswered(c) ==
  /\ c \in 1..Len(videoCalls)
  /\ videoCalls[c].kind = "video"
  /\ videoCalls[c].status = "inflight"
  /\ videoCalls[c].stage = "urls"
  /\ IF videoCalls[c].remaining = 1 THEN VideoDone(c)
     ELSE /\ videoCalls' = [videoCalls EXCEPT ![c].remaining = @ - 1]
          /\ UNCHANGED <<view, scenes, videoLoading, videoError, activeTab,
                         uploadedImageFile, finalResult, isEnhancing, afterReset>>
  /\ UNCHANGED outsideVideo

\* generateFinalVideo or a getDownloadUrl rejected: catch and finally
VideoFailed(c) ==
  /\ c \in 1..Len(videoCalls)
  /\ videoCalls[c].kind = "video"
  /\ videoCalls[c].status = "inflight"
  /\ videoError' = "An API error occurred."
  /\ view' = "STORYBOARD"
  /\ videoLoading' = FALSE
  /\ UNCHANGED <<scenes, activeTab, uploadedImageFile, finalResult, afterReset>>
  /\ Rerender(isEnhancing, Finished(videoCalls, c))
  /\ UNCHANGED outsideVideo

\* handleUpdateScene: the scene with this id gets the prompt
handleUpdateScene(id, newPrompt) ==
  [i \in 1..Len(scenes) |-> IF i = id THEN newPrompt ELSE scenes[i]]

\* the textarea of a scene
EditScene(s) ==
  /\ StoryboardShown(view, videoError, videoLoading)
  /\ s \in 1..Len(scenes)
  /\ scenes[s] # "edited"
  /\ scenes' = handleUpdateScene(s, "edited")
  /\ UNCHANGED <<view, videoLoading, videoError, activeTab, uploadedImageFile,
                 finalResult, isEnhancing, videoCalls, afterReset>>
  /\ UNCHANGED outsideVideo

\* the Generate Final Video control: disabled={isLoading || isEnhancing !== null}
GenerateVideoDisabled == videoLoading \/ isEnhancing # 0

\* the Enhance control of a scene: disabled={isEnhancing === scene.id || isLoading}
EnhanceDisabled(s) == isEnhancing = s \/ videoLoading

\* handleEnhanceClick up to its await
handleEnhanceClick(s) ==
  /\ StoryboardShown(view, videoError, videoLoading)
  /\ s \in 1..Len(scenes)
  /\ ~EnhanceDisabled(s)
  /\ Len(videoCalls) < MaxVideoCalls
  /\ isEnhancing' = s
  /\ videoCalls' = Append(videoCalls, VideoCall("enhance", "enhance", s))
  /\ UNCHANGED <<view, scenes, videoLoading, videoError, activeTab, uploadedImageFile,
                 finalResult, afterReset>>
  /\ UNCHANGED outsideVideo

\* finally { setIsEnhancing(null) }: nothing on a view that has unmounted
EnhancingAfter(call) == IF call.orphan THEN isEnhancing ELSE 0

\* enhancePrompt resolved (the scene is updated) or rejected: the finally of
\* handleEnhanceClick
EnhanceSettled(c, resolved) ==
  /\ c \in 1..Len(videoCalls)
  /\ videoCalls[c].kind = "enhance"
  /\ videoCalls[c].status = "inflight"
  /\ scenes' = IF resolved THEN handleUpdateScene(videoCalls[c].scene, "enhanced")
               ELSE scenes
  /\ isEnhancing' = EnhancingAfter(videoCalls[c])
  /\ videoCalls' = Finished(videoCalls, c)
  /\ UNCHANGED <<view, videoLoading, videoError, activeTab, uploadedImageFile,
                 finalResult, afterReset>>
  /\ UNCHANGED outsideVideo

VideoNext ==
  \/ TryAgain
  \/ TabChange
  \/ RemoveImage
  \/ StartOver
  \/ handleImageUpload
  \/ handleGenerateStoryboard
  \/ handleGenerateVideo
  \/ \E s \in 1..MaxScenes : EditScene(s)
  \/ \E s \in 1..MaxScenes : handleEnhanceClick(s)
  \/ \E c \in 1..MaxVideoCalls :
       \/ StoryboardUploaded(c)
       \/ \E answer \in StoryboardAnswers : StoryboardAnswered(c, answer)
       \/ StoryboardFailed(c)
       \/ \E hasUri \in BOOLEAN, clips \in 0..MaxClips : VideoAnswered(c, hasUri, clips)
       \/ UrlAnswered(c)
       \/ VideoFailed(c)
       \/ \E resolved \in BOOLEAN : EnhanceSettled(c, resolved)

VideoSpec == Init /\ [][VideoNext]_vars


(***************************************************************************)
(* HistoryPage: loadHistory, the reload effect and the controls.           *)
(* A promise that settles and the continuation awaiting it are one step.   *)
(***************************************************************************)
\* every state outside the history page
outsideHistory == <<apiVars, pageVars, combineVars, hookVars, videoVars, viewerVars>>

\* the values the selects and the search box offer
FilterTypes == {"all", "image"}
SortOrders == {"newest", "oldest"}
SearchQueries == {"", "tyre"}

\* loadHistory(page, append) up to its await, with the filter values of the
\* render that calls it
loadHistory(type, sort, search, page, append) ==
  /\ historyLoading' = IF append THEN historyLoading ELSE TRUE
  /\ historyError' = IF append THEN historyError ELSE UNDEF
  /\ historyCalls' = Append(historyCalls, HistoryCall(HistoryQuery(type, sort, search), page, append))
  /\ UNCHANGED <<historyItems, currentPage, hasMore>>

\* a select or the search box changes one filter value: the effect with
\* dependencies [filterType, sortBy, searchQuery] runs loadHistory(1, false)
ChangeFilter(type, sort, search) ==
  /\ Len(historyCalls) <= MaxHistoryCalls
  /\ <<type, sort, search>> # <<filterType, sortBy, searchQuery>>
  /\ \/ type = filterType /\ sort = sortBy
     \/ type = filterType /\ search = searchQuery
     \/ sort = sortBy /\ search = searchQuery
  /\ filterType' = type
  /\ sortBy' = sort
  /\ searchQuery' = search
  /\ loadHistory(type, sort, search, 1, FALSE)
  /\ UNCHANGED outsideHistory

\* the Try again link of the error alert
HistoryTryAgain ==
  /\ Len(historyCalls) <= MaxHistoryCalls
  /\ historyError # UNDEF
  /\ loadHistory(filterType, sortBy, searchQuery, 1, FALSE)
  /\ UNCHANGED <<filterType, sortBy, searchQuery>>
  /\ UNCHANGED outsideHistory

\* the Load More button, rendered when hasMore && !isLoading
LoadMore ==
  /\ Len(historyCalls) <= MaxHistoryCalls
  /\ hasMore /\ ~historyLoading
  /\ currentPage < MaxPage
  /\ loadHistory(filterType, sortBy, searchQuery, currentPage + 1, TRUE)
  /\ UNCHANGED <<filterType, sortBy, searchQuery>>
  /\ UNCHANGED outsideHistory

\* the items of one page of one query
PageOfItems(call) == [query |-> call.query, page |-> call.page]

\* append ? [...prev, ...items] : items
StoreItems(prev, call) ==
  IF call.append THEN Append(prev, PageOfItems(call)) ELSE <<PageOfItems(call)>>

\* getHistory resolved with success and data: the list, hasMore and the page
\* are stored, finally clears isLoading
HistoryAnswered(c, more) ==
  /\ c \in 1..Len(historyCalls)
  /\ historyCalls[c].status = "inflight"
  /\ historyItems' = StoreItems(historyItems, historyCalls[c])
  /\ hasMore' = more
  /\ currentPage' = historyCalls[c].page
  /\ historyLoading' = FALSE
  /\ historyCalls' = [historyCalls EXCEPT ![c].status = "done"]
  /\ UNCHANGED <<filterType, sortBy, searchQuery, historyError>>
  /\ UNCHANGED outsideHistory

\* getHistory rejected with a service error: the catch stores its message
HistoryFailed(c) ==
  /\ c \in 1..Len(historyCalls)
  /\ historyCalls[c].status = "inflight"
  /\ historyError' = handleApiError(FetchFailed).message
  /\ historyLoading' = FALSE
  /\ historyCalls' = [historyCalls EXCEPT ![c].status = "done"]
  /\ UNCHANGED <<filterType, sortBy, searchQuery, historyItems, currentPage, hasMore>>
  /\ UNCHANGED outsideHistory

HistoryNext ==
  \/ \E type \in FilterTypes, sort \in SortOrders, search \in SearchQueries :
       ChangeFilter(type, sort, search)
  \/ HistoryTryAgain
  \/ LoadMore
  \/ \E c \in 1..MaxHistoryCalls + 1 :
       \/ \E more \in BOOLEAN : HistoryAnswered(c, more)
       \/ HistoryFailed(c)

HistorySpec == Init /\ [][HistoryNext]_vars


(***************************************************************************)
(* MediaViewerModal: URL selection, the load events and Retry.             *)
(***************************************************************************)
\* every state outside the media viewer
outsideViewer == <<apiVars, pageVars, combineVars, hookVars, videoVars, historyVars>>

\* url && url.trim() !== ""
UsableUrl(u) == u # UNDEF /\ u \notin BlankUrls

\* the first usable entry of urls that is not in failed, or Placeholder
RECURSIVE FirstUrl(_, _)
FirstUrl(urls, failed) ==
  IF Len(urls) = 0 THEN Placeholder
  ELSE IF UsableUrl(Head(urls)) /\ ~Includes(failed, Head(urls)) THEN Head(urls)
  ELSE FirstUrl(Tail(urls), failed)

\* the first usable media URL, else the thumbnail, none being skipped: the
\* selection of getMediaUrl
getMediaUrl(it) ==
  IF \E i \in 1..Len(it.mediaUrls) : UsableUrl(it.mediaUrls[i])
    THEN FirstUrl(it.mediaUrls, <<>>)
  ELSE IF UsableUrl(it.thumbnail) THEN it.thumbnail
  ELSE Placeholder

\* the selection of handleMediaError with the failed URLs never consulted
NextUrl_IgnoresFailed(it, failed) == getMediaUrl(it)

\* the selection of handleMediaError: the first usable media URL that has
\* not failed; when that gives the placeholder, the thumbnail if usable and
\* not failed
NextUrl(it, failed) ==
  LET nextUrl == FirstUrl(it.mediaUrls, failed) IN
  IF nextUrl = Placeholder /\ UsableUrl(it.thumbnail) /\ ~Includes(failed, it.thumbnail)
    THEN it.thumbnail
  ELSE nextUrl

\* the most load errors in a row the model follows
MaxErrors == 5

\* the modal opens with an item: the effect on [item?.id, isOpen] resets the
\* state
OpenItem(it) ==
  /\ ~isOpen
  /\ isOpen' = TRUE
  /\ viewerItem' = it
  /\ viewer' = [viewer EXCEPT !.currentMediaUrl = getMediaUrl(it), !.failedUrls = <<>>,
                              !.isLoading = TRUE, !.hasError = FALSE]
  /\ errorsInRow' = 0
  /\ UNCHANGED outsideViewer

\* onClose: the parent closes the modal
CloseViewer ==
  /\ isOpen
  /\ isOpen' = FALSE
  /\ UNCHANGED <<viewerItem, viewer, errorsInRow>>
  /\ UNCHANGED outsideViewer

\* the URL the media element is given
mediaUrl == IF viewer.currentMediaUrl # "" THEN viewer.currentMediaUrl
            ELSE NextUrl(viewerItem, viewer.failedUrls)

\* the media element is rendered and loading
MediaLoading == isOpen /\ ~viewer.hasError /\ viewer.isLoading

handleMediaLoad ==
  /\ MediaLoading
  /\ viewer' = [viewer EXCEPT !.isLoading = FALSE, !.hasError = FALSE]
  /\ errorsInRow' = 0
  /\ UNCHANGED <<viewerItem, isOpen>>
  /\ UNCHANGED outsideViewer

handleMediaError ==
  /\ MediaLoading
  /\ errorsInRow < MaxErrors
  /\ LET newFailedUrls == Append(viewer.failedUrls, mediaUrl)
         nextUrl == NextUrl(viewerItem, newFailedUrls)
     IN viewer' = IF nextUrl # Placeholder
                    THEN [viewer EXCEPT !.failedUrls = newFailedUrls,
                                        !.currentMediaUrl = nextUrl,
                                        !.isLoading = TRUE, !.hasError = FALSE]
                  ELSE [viewer EXCEPT !.isLoading = FALSE, !.hasError = TRUE,
                                      !.failedUrls = newFailedUrls]
  /\ errorsInRow' = errorsInRow + 1
  /\ UNCHANGED <<viewerItem, isOpen>>
  /\ UNCHANGED outsideViewer

\* the Try Again button of the error panel
handleRetry ==
  /\ isOpen
  /\ viewer.hasError
  /\ viewer' = [viewer EXCEPT !.isLoading = TRUE, !.hasError = FALSE,
                              !.failedUrls = <<>>,
                              !.currentMediaUrl = getMediaUrl(viewerItem)]
  /\ errorsInRow' = 0
  /\ UNCHANGED <<viewerItem, isOpen>>
  /\ UNCHANGED outsideViewer

ViewerNext ==
  \/ \E it \in ViewerItems : OpenItem(it)
  \/ CloseViewer
  \/ handleMediaLoad
  \/ handleMediaError
  \/ handleRetry

ViewerSpec == Init /\ [][ViewerNext]_vars

(***************************************************************************)
(* Properties.                                                             *)
(***************************************************************************)
\* the ApiErrorCode union of lib/types.ts
ApiErrorCodes ==
  {"NETWORK_ERROR", "REQUEST_CANCELLED",
   "HTTP_400", "HTTP_401", "HTTP_403", "HTTP_404", "HTTP_429",
   "HTTP_500", "HTTP_502", "HTTP_503", "HTTP_504",
   "INVALID_PROMPT", "INVALID_RATIO", "INVALID_RESOLUTION", "INVALID_STYLE",
   "PARSE_ERROR", "INVALID_RESPONSE", "API_ERROR", "UNKNOWN_ERROR", "VALIDATION_ERROR"}

\* the validator generateImages / rewritePrompt applies to its request
RequestErrors(f, r) ==
  IF f = "generateImages" THEN validateImageGenerationRequest(r)
  ELSE validatePromptRewriteRequest(r)

\* the validator generateImages / rewritePrompt applies to a response body
ResponseErrors(f, body) ==
  IF f = "generateImages" THEN validateImageGenerationResponse(body)
  ELSE validatePromptRewriteResponse(body)

Threw(code) == outcome.kind = "ApiServiceError" /\ outcome.code = code

\* the server answered the call with this status
Answered(status) == pc = "done" /\ resp.status = status

\* C1: in generateImages and rewritePrompt a request with at least one
\* validation error makes the call throw a service error with code
\* VALIDATION_ERROR carrying exactly those errors, with no network request;
\* a network request is issued only for a request with zero errors.
C1_InvalidRequestNeverSent ==
  (fn \in WrappedFns /\ pc # "idle") =>
    LET errs == RequestErrors(fn, req) IN
    /\ Len(errs) > 0 =>
         /\ pc = "done"
         /\ Threw("VALIDATION_ERROR")
         /\ outcome.validationErrors = errs
         /\ fetchCount = 0
    /\ fetchCount > 0 => Len(errs) = 0

\* a request with two violated fields, called with a cancelled token, was
\* rejected by validation
C1_Witness ==
  /\ pc = "done"
  /\ fn = "generateImages"
  /\ sig = "aborted"
  /\ Len(validateImageGenerationRequest(req)) = 2
  /\ Threw("VALIDATION_ERROR")
  /\ fetchCount = 0

\* C2: generateImages / rewritePrompt called (with a valid request) with a
\* token that is already cancelled fails with a service error of code
\* REQUEST_CANCELLED and issues no network request.
C2_PreCancelledIsRequestCancelled ==
  (fn \in WrappedFns /\ pc = "done" /\ sig = "aborted" /\ fetchCount = 0
   /\ Len(RequestErrors(fn, req)) = 0)
    => Threw("REQUEST_CANCELLED")

\* C3: with a caller-supplied token, whichever of the caller's cancellation
\* and the timeout triggers while the call is in flight aborts the fetch once
\* and the call rejects with REQUEST_CANCELLED: it does not stay pending.
C3_FirstTriggerAborts ==
  [][(/\ fn \in WrappedFns
      /\ pc = "inflight"
      /\ sig = "live"
      /\ \/ sig' = "aborted"
         \/ timer = "armed" /\ timer' = "fired")
     => (/\ pc' = "done"
         /\ netAborts' = 1
         /\ outcome'.kind = "ApiServiceError"
         /\ outcome'.code = "REQUEST_CANCELLED")]_vars

\* C4: once generateImages / rewritePrompt has returned control, its timer
\* is not armed and no abort listener of the call is attached to the
\* caller's token.
C4_NoTimerNoListenerAfterReturn ==
  (fn \in WrappedFns /\ pc = "done") => (timer # "armed" /\ ~hasListener)

\* C5: whatever the API function, a 401 answer clears the credential, fails
\* with code HTTP_401 and navigates to the entry point exactly once.
C5_UnauthorizedHandled ==
  Answered(401) => (cookie = UNDEF /\ Threw("HTTP_401") /\ nav = 1)

\* a body has a code when the field holds a non-empty value
HasCode(body) == body.code \notin {UNDEF, ""}

C7_NoRawFailureReturned ==
  (pc = "done" /\ outcome.kind = "returned" /\ fn # "downloadImage"
   /\ resp.body.json /\ resp.body.isObject)
    => resp.body.success # JSFALSE

\* C8: a 200 answer whose body is not JSON makes the call (of a function
\* that reads a JSON body) throw a service error with code PARSE_ERROR.
C8_MalformedBodyIsParseError ==
  (Answered(200) /\ ~resp.body.json /\ fn # "downloadImage") => Threw("PARSE_ERROR")

\* C9: in generateImages / rewritePrompt a non-2xx answer other than 401
\* throws a service error whose code is the body's code when the body is
\* JSON and that code is a known code, and HTTP_<status> otherwise.
C9_HttpErrorCode ==
  (fn \in WrappedFns /\ pc = "done" /\ resp.status \notin {0, 401} /\ ~Ok(resp.status))
    => /\ outcome.kind = "ApiServiceError"
       /\ outcome.code =
            IF resp.body.json /\ resp.body.isObject /\ resp.body.code \in ApiErrorCodes
              THEN resp.body.code
            ELSE "HTTP_" \o ToString(resp.status)

\* a body code outside the known codes was replaced by HTTP_<status>
C9_Witness ==
  /\ fn = "rewritePrompt"
  /\ Answered(418)
  /\ resp.body.code = "QUOTA_EXCEEDED"
  /\ Threw("HTTP_418")

\* the closed set of codes: the ApiErrorCode union and HTTP_<status>
ClosedCodes == ApiErrorCodes \cup {HttpCode(status) : status \in Statuses}

\* C10: every service error an API function throws carries a code of the
\* closed enumeration.
C10_CodeInClosedSet ==
  outcome.kind = "ApiServiceError" => outcome.code \in ClosedCodes

\* C11: a service error constructed without a code (the not-ok branch of
\* uploadFileViaProxy) has code UNKNOWN_ERROR.
C11_OmittedCodeIsUnknownError ==
  (fn = "uploadFileViaProxy" /\ pc = "done" /\ resp.status # 0 /\ ~Ok(resp.status)
   /\ resp.body.json /\ resp.body.isObject)
    => Threw("UNKNOWN_ERROR")

\* what the body of the function threw (or Returned) for the answer in resp,
\* before the function's catch block saw it
BodyThrew ==
  IF resp.status = 401 /\ fn \in SignalFns THEN AuthRequired ELSE AfterFetch(fn, resp)

\* C12: when the body of an API function throws a service error, the error
\* that reaches the caller is that error with its code, message, details and
\* validation errors unchanged.
C12_ServiceErrorNotRewrapped ==
  (pc = "done" /\ resp.status # 0 /\ BodyThrew.kind = "ApiServiceError")
    => outcome = BodyThrew

\* generateImages got an error body with a known code: handleApiError saw
\* the service error of handleHttpError and handed it on
C12_Witness ==
  /\ fn = "generateImages"
  /\ Answered(500)
  /\ resp.body.code = "INVALID_PROMPT"
  /\ outcome = handleHttpError(resp)
  /\ Threw("INVALID_PROMPT")

\* C13: for every function that takes a cancellation token, aborting the
\* token while the call is in flight aborts the network request and makes
\* the call reject with a service error of code REQUEST_CANCELLED.
C13_CancelInFlightIsRequestCancelled ==
  (pc = "done" /\ sig = "aborted" /\ netAborts > 0) => Threw("REQUEST_CANCELLED")

\* the fields validateImageGenerationRequest reports on
RequestFields ==
  {"request", "prompt", "ratio", "resolution", "style", "contentType", "colorTone",
   "lighting", "composition", "numImages"}

\* membership of a value in a permitted set, the set taken from the enum
PermittedIn(v, allowed) == \E i \in 1..Len(allowed) : allowed[i] = v

\* the constraint of one field of an image generation request, as the claim
\* words it
FieldHolds(r, f) ==
  CASE f = "request" -> r.isObject
    [] f = "prompt" ->
         /\ r.prompt.t = "string"
         /\ Len(r.prompt.s) <= MaxPromptLen
         /\ \E i \in 1..Len(r.prompt.s) : r.prompt.s[i] \notin Whitespace
    [] f = "ratio" -> PermittedIn(r.ratio, ASPECT_RATIOS)
    [] f = "resolution" -> PermittedIn(r.resolution, RESOLUTIONS)
    [] f = "style" -> PermittedIn(r.style, STYLES)
    [] f = "contentType" -> r.contentType = UNDEF \/ PermittedIn(r.contentType, CONTENT_TYPES)
    [] f = "colorTone" -> r.colorTone = UNDEF \/ PermittedIn(r.colorTone, COLOR_TONES)
    [] f = "lighting" -> r.lighting = UNDEF \/ PermittedIn(r.lighting, LIGHTING_OPTIONS)
    [] f = "composition" ->
         r.composition = UNDEF \/ PermittedIn(r.composition, COMPOSITION_OPTIONS)
    [] f = "numImages" ->
         r.numImages.t = "undefined"
         \/ (r.numImages.t = "number" /\ r.numImages.n \in {1, 2, 3, 4})

\* C19: validateImageGenerationRequest returns an empty list exactly when
\* every field constraint holds; otherwise the list is not empty and the
\* field of every error names a field whose constraint is violated.
C19_ErrorsMatchViolatedFields ==
  fn = "generateImages" =>
    LET errs == validateImageGenerationRequest(req) IN
    /\ (Len(errs) = 0) <=> (\A f \in RequestFields : FieldHolds(req, f))
    /\ \A i \in 1..Len(errs) :
         /\ errs[i].field \in RequestFields
         /\ ~FieldHolds(req, errs[i].field)
    /\ (pc = "done" /\ Len(errs) > 0) => outcome.validationErrors = errs

\* the request {prompt "a", ratio "21:9", ...} was rejected with one error,
\* for field ratio, listing the permitted set
C19_Witness ==
  /\ fn = "generateImages"
  /\ pc = "done"
  /\ req.ratio = "21:9"
  /\ req.prompt = PString(<<"a">>)
  /\ outcome.validationErrors =
       <<VErr("ratio", "Aspect ratio must be one of: 1:1, 16:9, 9:16, 4:3")>>

\* C20: a request whose prompt is the empty string (other fields valid)
\* gets an error for field prompt whose message says the prompt cannot be
\* empty, as a whitespace-only prompt does.
C20_EmptyPromptCannotBeEmpty ==
  (fn = "generateImages" /\ pc = "done" /\ req.isObject /\ req.prompt = PString(<<>>)
   /\ \A f \in RequestFields \ {"prompt"} : FieldHolds(req, f))
    => outcome.validationErrors = <<VErr("prompt", "Prompt cannot be empty")>>

\* the operations by which the page itself cancels a request in flight
PageCancellations == {"Cancel", "handleClear", "handleGenerate", "handleRewrite", "Unmount"}

\* C14: on the image generation page a generation request cancelled in
\* flight (Cancel, Clear, a replacement request, unmount) never stores
\* images and never sets the page's error message.
C14_CancelledRequestIsSilent ==
  \A c \in 1..Len(calls) :
    (calls[c].slot = "generate" /\ calls[c].abortedBy \in PageCancellations)
      => (~calls[c].stored /\ ~calls[c].raisedError)

\* the requests of a slot whose fetch is pending and whose token is not
\* aborted
LiveRequests(slot) ==
  {c \in 1..Len(calls) : calls[c].slot = slot /\ InFlight(c) /\ ~calls[c].aborted}

\* C16: in every reachable state of the image generation page at most one
\* non-aborted request is in flight in the generation slot and at most one
\* in the rewrite slot.
C16_OneLiveRequestPerSlot ==
  /\ Cardinality(LiveRequests("generate")) <= 1
  /\ Cardinality(LiveRequests("rewrite")) <= 1

\* a generation was cancelled with the Cancel button and a second one is in
\* flight
C16_Witness ==
  /\ Len(calls) = 2
  /\ calls[1].slot = "generate"
  /\ calls[1].abortedBy = "Cancel"
  /\ LiveRequests("generate") = {2}

\* what aborted a request in flight, by the slot whose operation it was
GenerationSlotAborts ==
  {"handleGenerate", "Cancel", "effect after Generate", "effect after Retry",
   "effect after Cancel", "effect after GenerateSettled"}

RewriteSlotAborts ==
  {"handleRewrite", "effect after handleRewrite", "effect after RewriteSettled"}

\* C17: starting, completing or cancelling a request in one slot of the image
\* generation page never aborts a request in flight in the other slot.
C17_SlotsIndependent ==
  \A c \in 1..Len(calls) :
    /\ calls[c].slot = "rewrite" => calls[c].abortedBy \notin GenerationSlotAborts
    /\ calls[c].slot = "generate" => calls[c].abortedBy \notin RewriteSlotAborts

\* C18: handleGenerate always returns the page to Idle: a rejected input
\* validation leaves an error, no request and no loading state; once the
\* promise of every generation request has settled and its continuation has
\* run, isGenerating is false and the slot controller is null.
C18_GenerationReturnsToIdle ==
  /\ lastEvent.result = "rejected"
       => /\ pageError # UNDEF
          /\ pageError = validateInputs(prompt)
          /\ Len(calls) = lastEvent.before
          /\ ~isGenerating
          /\ abortController = 0
  /\ (mounted /\ \A c \in 1..Len(calls) :
                   calls[c].slot = "generate" => calls[c].status = "done")
       => (~isGenerating /\ abortController = 0)

\* a generation that was cancelled in flight has settled and the page is
\* idle again
C18_Witness ==
  /\ mounted
  /\ Len(calls) = 1
  /\ calls[1].slot = "generate"
  /\ calls[1].abortedBy = "Cancel"
  /\ calls[1].status = "done"
  /\ lastEvent.name = "GenerateSettled"
  /\ ~isGenerating
  /\ abortController = 0

\* the builder applied to the scalar fields of the request at hand
BuiltImageRequest ==
  createImageGenerationRequest(req.prompt, req.ratio, req.resolution, req.style,
                               req.contentType, req.colorTone, req.lighting,
                               req.composition, req.numImages)

\* C21: whenever createImageGenerationRequest or createPromptRewriteRequest
\* returns an object instead of throwing, the matching request validator
\* finds no error in the returned object.
C21_BuiltRequestRevalidates ==
  /\ (fn = "generateImages" /\ BuiltImageRequest.ok) =>
       validateImageGenerationRequest(BuiltImageRequest.request) = <<>>
  /\ (fn = "rewritePrompt" /\ createPromptRewriteRequest(req.prompt).ok) =>
       validatePromptRewriteRequest(createPromptRewriteRequest(req.prompt).request) = <<>>

\* the builder was given lighting "none" and composition "closeup": it
\* returned a request without lighting, with composition "closeup"
C21_Witness ==
  /\ fn = "generateImages"
  /\ req.lighting = "none"
  /\ req.composition = "closeup"
  /\ BuiltImageRequest.ok
  /\ BuiltImageRequest.request.lighting = UNDEF
  /\ BuiltImageRequest.request.composition = "closeup"

\* images is a non-empty array of non-empty strings
NonEmptyImageList(images) ==
  /\ images.isArray
  /\ Len(images.items) > 0
  /\ \A i \in 1..Len(images.items) : IsString(images.items[i]) /\ images.items[i] # ""

\* C22: a 200 body with success = true whose images value is missing, empty,
\* or holds an empty or non-string element gets at least one validation
\* error, so generateImages rejects it with INVALID_RESPONSE.
C22_SuccessNeedsNonEmptyImages ==
  (/\ fn = "generateImages"
   /\ Answered(200)
   /\ resp.body.json
   /\ resp.body.isObject
   /\ resp.body.success = JSTRUE
   /\ ~NonEmptyImageList(resp.body.images))
    => (/\ Len(validateImageGenerationResponse(resp.body)) > 0
        /\ Threw("INVALID_RESPONSE"))

\* one of the defined arguments of the call is an aborted signal
SomeInputAborted ==
  \E i \in 1..Len(combineArgs) : combineArgs[i] # 0 /\ inputAborted[combineArgs[i]]

\* C23: from its return on, the signal combineAbortSignals returned is
\* aborted exactly when one of its defined inputs is aborted, its abort event
\* having been dispatched once; when it is already aborted, the abort of
\* another input changes nothing of it and leaves no listener attached.
C23_CombinedAbortedIffInputAborted ==
  [][/\ combined'.created =>
          /\ combined'.aborted <=> SomeInputAborted'
          /\ combined'.abortEvents = IF combined'.aborted THEN 1 ELSE 0
     /\ combined.aborted =>
          (combined' = combined /\ \A o \in SignalObjects : ~handlerOn'[o])]_vars

\* two distinct inputs and an undefined one were combined while live; both
\* inputs were aborted afterwards and the combined signal aborted once
C23_Witness ==
  /\ combined.created
  /\ Len(combineArgs) = 3
  /\ validSignals(combineArgs) = {1, 2}
  /\ inputAborted[1] /\ inputAborted[2]
  /\ combined.aborted
  /\ combined.abortEvents = 1

\* C24: every network request issued while a credential is stored carries
\* the header Authorization: Bearer <that credential>; with no credential
\* stored the request is issued without an Authorization header.
C24_RequestCarriesBearer ==
  [][fetchCount' > fetchCount =>
       authHeader' = IF cookie # UNDEF THEN "Bearer " \o cookie ELSE UNDEF]_vars

\* C25: on the image generation page a generation request in flight whose
\* token is not aborted has the page in the loading state, and the step in
\* which a request that was never cancelled finishes leaves the page showing
\* at least one image stored from its response, or an error message.
C25_ImagesOrErrorAfterGeneration ==
  [][/\ \A c \in 1..Len(calls') :
          (calls'[c].slot = "generate" /\ calls'[c].status = "inflight"
           /\ ~calls'[c].aborted) => isGenerating'
     /\ \A c \in 1..Len(calls) :
          (/\ calls[c].slot = "generate"
           /\ calls[c].status = "settled"
           /\ calls'[c].status = "done"
           /\ calls[c].abortedBy = "none")
            => \/ calls'[c].stored /\ Len(generatedImages') > 0
               \/ calls'[c].raisedError /\ pageError' # UNDEF]_vars

\* a generation answered 200 with an empty images array has finished: no
\* image is shown, the error message is
C25_Witness ==
  /\ Len(calls) = 1
  /\ calls[1].slot = "generate"
  /\ calls[1].status = "done"
  /\ calls[1].abortedBy = "none"
  /\ calls[1].outcome.kind = "returned"
  /\ calls[1].images = <<>>
  /\ generatedImages = <<>>
  /\ pageError # UNDEF
  /\ ~isGenerating

\* C26: in the useApi hook loading is true whenever a request started
\* through executeRequest has not settled, overlapping requests included.
C26_LoadingWhilePending ==
  (\E r \in 1..Len(hookRequests) : hookRequests[r] = "pending") => loading

\* C27: in the video generation page, from a reset (Try Again, tab change,
\* image removed, Start Over) until a new storyboard generation is started,
\* the view is FORM and the scene list is empty, whatever request started
\* before the reset settles meanwhile.
C27_ResetStaysOnForm ==
  afterReset => (view = "FORM" /\ scenes = <<>>)

\* a Generate Final Video control that is rendered and enabled
GenerateVideoEnabled ==
  StoryboardShown(view, videoError, videoLoading) /\ ~GenerateVideoDisabled

\* C28: in the storyboard view the Generate Final Video control is disabled
\* whenever an enhance request started by the view is in flight.
C28_NoFinalVideoWhileEnhancing ==
  (\E c \in 1..Len(videoCalls) :
     /\ videoCalls[c].kind = "enhance"
     /\ videoCalls[c].status = "inflight"
     /\ ~videoCalls[c].orphan)
    => ~GenerateVideoEnabled

\* every run of loadHistory has settled
HistorySettled == \A c \in 1..Len(historyCalls) : historyCalls[c].status = "done"

\* C29: in the history page, once every request has settled (and no error is
\* shown), every page of items in the list was returned for the current
\* filter, sort and search values.
C29_ItemsAnswerCurrentFilters ==
  (HistorySettled /\ historyError = UNDEF) =>
    \A i \in 1..Len(historyItems) :
      historyItems[i].query = HistoryQuery(filterType, sortBy, searchQuery)

\* the distinct non-empty candidate URLs of the item: its mediaUrls and its
\* thumbnail
CandidateUrls ==
  ({viewerItem.mediaUrls[i] : i \in 1..Len(viewerItem.mediaUrls)} \cup {viewerItem.thumbnail})
    \ {UNDEF, ""}

\* the load error handler has given up
ViewerTerminal == viewer.hasError /\ ~viewer.isLoading

\* the URL being loaded is not one of the failed URLs
LoadingUrlNotFailed == MediaLoading => ~Includes(viewer.failedUrls, viewer.currentMediaUrl)

\* C30 as stated: the fallback never selects a failed URL, and an item with
\* n candidate URLs sees at most n load errors in a row.
C30_AtMostNErrors ==
  isOpen => (LoadingUrlNotFailed /\ errorsInRow <= Cardinality(CandidateUrls))

\* the bound on the errors in a row: the candidates, or the one load of the
\* placeholder when there is none
ErrorBound == IF CandidateUrls = {} THEN 1 ELSE Cardinality(CandidateUrls)

\* C30 amended: the fallback never selects a failed URL; an item with n >= 1
\* candidate URLs sees at most n load errors in a row, an item with none
\* sees one (of the placeholder); that many errors in a row leave the viewer
\* in the state hasError = true, isLoading = false.
C30_ErrorsBoundedByCandidates ==
  isOpen =>
    /\ LoadingUrlNotFailed
    /\ errorsInRow <= ErrorBound
    /\ errorsInRow = ErrorBound => ViewerTerminal

\* two media URLs and a thumbnail, all distinct, failed one after the other:
\* the third error ended in the error panel
C30_Witness ==
  /\ isOpen
  /\ Cardinality(CandidateUrls) = 3
  /\ errorsInRow = 3
  /\ Len(viewer.failedUrls) = 3
  /\ ViewerTerminal
====
